---------------------------- MODULE Spec2Model ----------------------------
(* Dashboard usecase of tks-api (package usecase, DashboardUsecase):      *)
(* endpoint resolution through the shared cache, stack summaries, the     *)
(* range-series chart aligner, the monthly pod-restart calendar and the   *)
(* per-stack utilization figures.                                         *)
(*                                                                        *)
(* Conventions.  Text whose characters are inspected by the code (sample  *)
(* values, year and month parameters, formatted dates) is a sequence of   *)
(* one-character strings; text that is only compared or concatenated      *)
(* (identifiers, cache keys, urls, rendered numbers) is a TLA+ string.    *)
(* A binary floating point value is a record [s, m, e] = s * m * 2^e with *)
(* m odd or zero.                                                         *)
EXTENDS Integers, Sequences, FiniteSets, TLC

VARIABLES
    cache,      \* u.cache: cache key -> cached string, or NoEntry
    call,       \* the latest getThanosUrl call: arguments, result, outbound calls
    clusters,   \* clusterRepo: the clusters of the organization, in fetch order
    stacks,     \* the latest GetStacks response
    series,     \* thanos range result: result.Data.Result
    chart,      \* the latest getChartFromPrometheus response
    alerts,     \* alertRepo: dates of the pod-restart alerts
    now,        \* time.Now() of the calendar request (local calendar date)
    samples,    \* thanos instant result handed to getStackMemoryDisk
    util,       \* the latest getStackMemoryDisk result
    world,      \* what the collaborators answer to a chart request
    req,        \* the chart request: chartType, year, month
    resources,  \* the latest GetResources response
    charts,     \* the latest GetCharts response
    flight,     \* the getThanosUrl calls in flight, one per request goroutine
    named       \* the latest getClusterNameFromId call made on its own

vars == <<cache, call, clusters, stacks, series, chart, alerts, now, samples, util, world, req,
          resources, charts, flight, named>>

---------------------------------------------------------------------------
(* Numbers and text                                                        *)

RECURSIVE Pow(_, _)
Pow(b, n) == IF n = 0 THEN 1 ELSE b * Pow(b, n - 1)

Abs(x) == IF x < 0 THEN -x ELSE x

Digits == <<"0", "1", "2", "3", "4", "5", "6", "7", "8", "9">>

DigitChar(d) == Digits[d + 1]

\* the digit characters and their values
DigitValue == [c \in {Digits[i] : i \in 1..10} |-> CHOOSE d \in 0..9 : Digits[d + 1] = c]

IsDigit(c) == c \in DOMAIN DigitValue

DigitVal(c) == DigitValue[c]

\* strconv.Itoa of a non-negative number
RECURSIVE ItoaNat(_)
ItoaNat(n) == IF n < 10 THEN DigitChar(n) ELSE ItoaNat(n \div 10) \o DigitChar(n % 10)

\* strconv.Itoa
Itoa(n) == IF n < 0 THEN "-" \o ItoaNat(-n) ELSE ItoaNat(n)

\* n written with at least w digits, zero padded (the %0wd of a non-negative n)
RECURSIVE Pad(_, _)
Pad(n, w) == IF w <= 1 THEN ItoaNat(n) ELSE
             IF n < Pow(10, w - 1) THEN "0" \o Pad(n, w - 1) ELSE ItoaNat(n)

\* value of a sequence of digit characters
RECURSIVE DigitsVal(_)
DigitsVal(cs) == IF cs = <<>> THEN 0
                 ELSE 10 * DigitsVal(SubSeq(cs, 1, Len(cs) - 1)) + DigitVal(cs[Len(cs)])

AllDigits(cs) == cs # <<>> /\ \A i \in 1..Len(cs) : IsDigit(cs[i])

HasSign(cs) == cs # <<>> /\ cs[1] \in {"-", "+"}

Unsigned(cs) == IF HasSign(cs) THEN Tail(cs) ELSE cs

\* strconv.Atoi: [ok, v]; the callers that discard the error read v = 0
Atoi(cs) == IF AllDigits(Unsigned(cs))
            THEN [ok |-> TRUE,
                  v |-> IF cs[1] = "-" THEN -DigitsVal(Unsigned(cs)) ELSE DigitsVal(Unsigned(cs))]
            ELSE [ok |-> FALSE, v |-> 0]

---------------------------------------------------------------------------
(* Binary floating point                                                   *)

FZero == [s |-> 1, m |-> 0, e |-> 0]

\* m * 2^e with the factors of two moved into the exponent
RECURSIVE Canon(_, _, _)
Canon(s, m, e) == IF m = 0 THEN FZero
                  ELSE IF m % 2 = 0 THEN Canon(s, m \div 2, e + 1)
                  ELSE [s |-> s, m |-> m, e |-> e]

RECURSIVE BitLen(_)
BitLen(m) == IF m = 0 THEN 0 ELSE 1 + BitLen(m \div 2)

\* m * 2^e rounded to a mantissa of p bits, ties to even (IEEE 754 default)
RoundBits(s, m, e, p) ==
    IF BitLen(m) <= p THEN Canon(s, m, e)
    ELSE LET k    == BitLen(m) - p
             q    == m \div Pow(2, k)
             low  == m % Pow(2, k)
             half == Pow(2, k - 1)
             up   == low > half \/ (low = half /\ q % 2 = 1)
         IN Canon(s, IF up THEN q + 1 ELSE q, e + k)

\* long division n / d: `more` further quotient bits are shifted in (fewer
\* when the division comes out even); a remainder is kept as a sticky last bit
RECURSIVE DivBits(_, _, _, _, _)
DivBits(q, r, d, e, more) ==
    IF r = 0 THEN [m |-> q, e |-> e]
    ELSE IF more <= 0 THEN [m |-> 2 * q + 1, e |-> e - 1]
    ELSE DivBits(2 * q + (IF 2 * r >= d THEN 1 ELSE 0),
                 IF 2 * r >= d THEN 2 * r - d ELSE 2 * r, d, e - 1, more - 1)

\* n / d (n >= 0, d > 0) as a mantissa of more than p + 1 bits, or exactly
Quotient(n, d, p) == DivBits(n \div d, n % d, d, 0, p + 2 - BitLen(n \div d))

\* the rational n / d (d > 0) rounded to p bits
RoundRat(n, d, p) ==
    LET b == Quotient(Abs(n), d, p)
    IN RoundBits(IF n < 0 THEN -1 ELSE 1, b.m, b.e, p)

\* float32(n) of an integer
F32(n) == RoundRat(n, 1, 24)

\* signed integer mantissa of x at exponent e <= x.e
At(x, e) == x.s * x.m * Pow(2, x.e - e)

MinE(x, y) == IF x.m = 0 THEN y.e ELSE IF y.m = 0 THEN x.e ELSE IF x.e < y.e THEN x.e ELSE y.e

\* x - y, x * y and x / y in float32
FSub32(x, y) == LET e == MinE(x, y)
                    d == At(x, e) - At(y, e)
                IN RoundBits(IF d < 0 THEN -1 ELSE 1, Abs(d), e, 24)

FMul32(x, y) == RoundBits(x.s * y.s, x.m * y.m, x.e + y.e, 24)

\* y.m # 0: the callers guard the denominator
FDiv32(x, y) == LET b == Quotient(x.m, y.m, 24)
                    r == RoundBits(x.s * y.s, b.m, b.e, 24)
                IN Canon(r.s, r.m, r.e + x.e - y.e)

\* x * y in float64
FMul64(x, y) == RoundBits(x.s * y.s, x.m * y.m, x.e + y.e, 53)

\* the first n decimal digits of the fraction r / 2^k (r < 2^k) as a
\* number, and the fraction r / 2^k that remains after them; a digit is
\* floor(10 * r / 2^k) = floor(5 * r / 2^(k-1))
RECURSIVE FracDigits(_, _, _)
FracDigits(r, k, n) ==
    IF n = 0 \/ k = 0 THEN [v |-> 0, r |-> r, k |-> k]
    ELSE LET d    == (5 * r) \div Pow(2, k - 1)
             rest == FracDigits((5 * r) % Pow(2, k - 1), k - 1, n - 1)
         IN [v |-> d * Pow(10, n - 1) + rest.v, r |-> rest.r, k |-> rest.k]

\* |x| * 10^prec rounded to an integer, ties to even on the exact decimal
\* expansion (strconv rounds the exact value of the float)
Scaled(x, prec) ==
    IF x.e >= 0 THEN x.m * Pow(2, x.e) * Pow(10, prec)
    ELSE LET k    == -x.e
             ip   == x.m \div Pow(2, k)
             fr   == FracDigits(x.m % Pow(2, k), k, prec)
             nx   == FracDigits(fr.r, fr.k, 1)
             kept == ip * Pow(10, prec) + fr.v
             up   == nx.v > 5 \/ (nx.v = 5 /\ (nx.r # 0 \/ kept % 2 = 1))
         IN IF up THEN kept + 1 ELSE kept

\* fmt.Sprintf("%.<prec>f", x), prec >= 1
FormatF(x, prec) ==
    LET n == Scaled(x, prec)
    IN (IF x.s < 0 THEN "-" ELSE "") \o ItoaNat(n \div Pow(10, prec)) \o "."
       \o Pad(n % Pow(10, prec), prec)

\* the characters before and after the first "."
RECURSIVE DotAt(_, _)
DotAt(cs, i) == IF i > Len(cs) THEN 0 ELSE IF cs[i] = "." THEN i ELSE DotAt(cs, i + 1)

\* strconv.ParseFloat(cs, 32) on decimal text [sign] digits [. digits]:
\* [ok, v] with v the nearest float32.  Text outside this form that the
\* model feeds it (letters, the empty text) is rejected by ParseFloat too.
ParseFloat32(cs) ==
    LET u   == Unsigned(cs)
        dot == DotAt(u, 1)
        ip  == IF dot = 0 THEN u ELSE SubSeq(u, 1, dot - 1)
        fp  == IF dot = 0 THEN <<>> ELSE SubSeq(u, dot + 1, Len(u))
        ok  == /\ ip \o fp # <<>>
               /\ \A i \in 1..Len(ip) : IsDigit(ip[i])
               /\ \A i \in 1..Len(fp) : IsDigit(fp[i])
        sg  == IF HasSign(cs) /\ cs[1] = "-" THEN -1 ELSE 1
    IN IF ok THEN [ok |-> TRUE,
                   v |-> RoundRat(sg * DigitsVal(ip \o fp), Pow(10, Len(fp)), 24)]
       ELSE [ok |-> FALSE, v |-> FZero]


---------------------------------------------------------------------------
(* The shared cache (go-cache): a map from key to string                   *)

\* a cache that never finds an entry
CacheGet_miss(c, k) == [found |-> FALSE, value |-> ""]

\* u.cache.Get(k): (value, found)
CacheGet(c, k) == [found |-> k \in DOMAIN c, value |-> IF k \in DOMAIN c THEN c[k] ELSE ""]

\* u.cache.Set(k, v, gcache.DefaultExpiration)
CacheSet(c, k, v) == [x \in DOMAIN c \cup {k} |-> IF x = k THEN v ELSE c[x]]

\* the entry of k expires (or an external reset removes it)
CacheDrop(c, k) == [x \in DOMAIN c \ {k} |-> c[x]]

EmptyCache == [x \in {} |-> ""]

---------------------------------------------------------------------------
(* getThanosUrl                                                            *)

Orgs == {"o1", "o2"}

PrimaryService == "thanos-query-frontend"

FallbackService == "thanos-query"

ServiceNames == {PrimaryService, FallbackService}

\* the services a cluster may hold under a name: Spec.Type, the ingress
\* hostnames of Status.LoadBalancer and Spec.Ports (TargetPort.StrVal, Port)
ServicePool ==
    { [type |-> "LoadBalancer", lbs |-> <<"a.elb">>,
       ports |-> <<[targetPort |-> "http", port |-> 9090]>>],
      [type |-> "LoadBalancer", lbs |-> <<"b.elb", "a.elb">>,
       ports |-> <<[targetPort |-> "https", port |-> 443], [targetPort |-> "http", port |-> 9090]>>],
      [type |-> "ClusterIP", lbs |-> <<>>,
       ports |-> <<[targetPort |-> "http", port |-> 9090]>>],
      [type |-> "LoadBalancer", lbs |-> <<>>,
       ports |-> <<[targetPort |-> "http", port |-> 9090]>>],
      [type |-> "LoadBalancer", lbs |-> <<"a.elb">>, ports |-> <<>>] }

\* the services of namespace lma: a map from the names that exist
ServiceMaps ==
    UNION { [names -> ServicePool] : names \in SUBSET ServiceNames }

\* what the outside world answers during one resolution: the organization
\* lookup, its PrimaryClusterId, the client set and the services
Envs == [orgErr : BOOLEAN, primary : {"", "c1"}, clientErr : BOOLEAN, services : ServiceMaps]

ThanosKey(organizationId) == "CACHE_KEY_THANOS_URL" \o organizationId

\* scheme://host:port from the first port and the first ingress
ComposeUrl(service) ==
    service.ports[1].targetPort \o "://" \o service.lbs[1] \o ":" \o Itoa(service.ports[1].port)

Resolution(out, err, c, orgGets, clientGets, svcGets) ==
    [out |-> out, err |-> err, cache |-> c,
     orgGets |-> orgGets, clientGets |-> clientGets, svcGets |-> svcGets]

\* a resolver that also stores the empty endpoint of a load balancer
\* without ingress
ThanosUrlOfService_cacheEmpty(c, organizationId, service, svcGets) ==
    IF service.type # "LoadBalancer"
    THEN Resolution("", "Service type is not LoadBalancer", c, 1, 1, svcGets)
    ELSE IF Len(service.lbs) > 0 /\ Len(service.ports) > 0
         THEN Resolution(ComposeUrl(service), "",
                         CacheSet(c, ThanosKey(organizationId), ComposeUrl(service)),
                         1, 1, svcGets)
         ELSE Resolution("", "", CacheSet(c, ThanosKey(organizationId), ""), 1, 1, svcGets)

\* lines 556-568: the service is found
ThanosUrlOfService(c, organizationId, service, svcGets) ==
    IF service.type # "LoadBalancer"
    THEN Resolution("", "Service type is not LoadBalancer", c, 1, 1, svcGets)
    ELSE IF Len(service.lbs) > 0 /\ Len(service.ports) > 0
         THEN Resolution(ComposeUrl(service), "",
                         CacheSet(c, ThanosKey(organizationId), ComposeUrl(service)),
                         1, 1, svcGets)
         ELSE Resolution("", "", c, 1, 1, svcGets)

\* a resolver that asks for the fallback service whatever the first answer
getThanosUrl_bothQueried(c, organizationId, env) ==
    IF CacheGet(c, ThanosKey(organizationId)).found
    THEN Resolution(CacheGet(c, ThanosKey(organizationId)).value, "", c, 0, 0, <<>>)
    ELSE IF env.orgErr
    THEN Resolution("", "Failed to get organization", c, 1, 0, <<>>)
    ELSE IF env.primary = ""
    THEN Resolution("", "Invalid primary clusterId", c, 1, 0, <<>>)
    ELSE IF env.clientErr
    THEN Resolution("", "Failed to get client set for user cluster", c, 1, 1, <<>>)
    ELSE IF FallbackService \in DOMAIN env.services
    THEN ThanosUrlOfService(c, organizationId, env.services[FallbackService],
                            <<PrimaryService, FallbackService>>)
    ELSE IF PrimaryService \in DOMAIN env.services
    THEN ThanosUrlOfService(c, organizationId, env.services[PrimaryService],
                            <<PrimaryService, FallbackService>>)
    ELSE Resolution("", "Failed to get services.", c, 1, 1, <<PrimaryService, FallbackService>>)

\* getThanosUrl(organizationId) against cache c in the world env: the
\* result (out, err), the cache afterwards and the outbound calls made
getThanosUrl(c, organizationId, env) ==
    IF CacheGet(c, ThanosKey(organizationId)).found
    THEN Resolution(CacheGet(c, ThanosKey(organizationId)).value, "", c, 0, 0, <<>>)
    ELSE IF env.orgErr
    THEN Resolution("", "Failed to get organization", c, 1, 0, <<>>)
    ELSE IF env.primary = ""
    THEN Resolution("", "Invalid primary clusterId", c, 1, 0, <<>>)
    ELSE IF env.clientErr
    THEN Resolution("", "Failed to get client set for user cluster", c, 1, 1, <<>>)
    ELSE IF PrimaryService \in DOMAIN env.services
    THEN ThanosUrlOfService(c, organizationId, env.services[PrimaryService], <<PrimaryService>>)
    ELSE IF FallbackService \in DOMAIN env.services
    THEN ThanosUrlOfService(c, organizationId, env.services[FallbackService],
                            <<PrimaryService, FallbackService>>)
    ELSE Resolution("", "Failed to get services.", c, 1, 1, <<PrimaryService, FallbackService>>)

NoCall == [org |-> "", env |-> <<>>, prior |-> EmptyCache, res |-> <<>>]

\* one call of getThanosUrl: the cache is updated and the call recorded
ResolveEndpoint(organizationId, env) ==
    LET r == getThanosUrl(cache, organizationId, env)
    IN /\ cache' = r.cache
       /\ call' = [org |-> organizationId, env |-> env, prior |-> cache, res |-> r]
       /\ UNCHANGED <<clusters, stacks, series, chart, alerts, now, samples, util, world, req, resources, charts, flight, named>>

\* the TTL of an entry runs out
Expire(k) ==
    /\ k \in DOMAIN cache
    /\ cache' = CacheDrop(cache, k)
    /\ UNCHANGED <<call, clusters, stacks, series, chart, alerts, now, samples, util, world, req, resources, charts, flight, named>>

---------------------------------------------------------------------------
(* Stack utilization: getStackMemoryDisk, getStackCpu                      *)

\* a sample of an instant vector: Metric.TacoCluster, Metric.Name, Value[1]
Sample(cluster, name, value) == [cluster |-> cluster, name |-> name, value |-> value]

\* lines 595-609: the four counters after the samples seen so far; a later
\* sample of the same cluster and name overwrites the earlier value, and an
\* unparsable value is stored as 0 (the error of Atoi is discarded)
RECURSIVE ScanMemoryDisk(_, _, _)
ScanMemoryDisk(result, clusterId, acc) ==
    IF result = <<>> THEN acc
    ELSE LET val == Head(result)
             v   == Atoi(val.value).v
             a1  == IF val.name = "node_memory_MemFree_bytes" THEN [acc EXCEPT !.free = v]
                    ELSE IF val.name = "machine_memory_bytes" THEN [acc EXCEPT !.machine = v]
                    ELSE acc
             a2  == IF val.name = "kubelet_volume_stats_used_bytes" THEN [a1 EXCEPT !.used = v]
                    ELSE IF val.name = "kubelet_volume_stats_capacity_bytes"
                         THEN [a1 EXCEPT !.capacity = v]
                    ELSE a1
         IN ScanMemoryDisk(Tail(result), clusterId,
                           IF val.cluster = clusterId THEN a2 ELSE acc)

\* a guard that only excludes a total of zero
MemoryPercent_nonZero(free, machine) ==
    IF machine # 0
    THEN FormatF(FMul32(FSub32(F32(1), FDiv32(F32(free), F32(machine))), F32(100)), 2)
    ELSE ""

\* lines 611-614: fmt.Sprintf("%0.2f", (1 - float32(free)/float32(machine)) * 100)
MemoryPercent(free, machine) ==
    IF machine > 0
    THEN FormatF(FMul32(FSub32(F32(1), FDiv32(F32(free), F32(machine))), F32(100)), 2)
    ELSE ""

\* lines 616-619: fmt.Sprintf("%0.2f", float32(used)/float32(capacity) * 100)
DiskPercent(used, capacity) ==
    IF capacity > 0
    THEN FormatF(FMul32(FDiv32(F32(used), F32(capacity)), F32(100)), 2)
    ELSE ""

getStackMemoryDisk(result, clusterId) ==
    LET acc == ScanMemoryDisk(result, clusterId,
                              [free |-> 0, machine |-> 0, used |-> 0, capacity |-> 0])
    IN [memory |-> MemoryPercent(acc.free, acc.machine),
        disk |-> DiskPercent(acc.used, acc.capacity)]

\* the first sample of the cluster decides; an unparsable value gives ""
RECURSIVE getStackCpu(_, _)
getStackCpu(result, clusterId) ==
    IF result = <<>> THEN ""
    ELSE IF Head(result).cluster = clusterId
         THEN (IF ParseFloat32(Head(result).value).ok
               THEN FormatF(ParseFloat32(Head(result).value).v, 2) ELSE "")
         ELSE getStackCpu(Tail(result), clusterId)

UtilResult(clusterId, r, cpu) ==
    [done |-> TRUE, cluster |-> clusterId, memory |-> r.memory, disk |-> r.disk, cpu |-> cpu]

\* getStackMemoryDisk and getStackCpu are applied to the instant vector for
\* one cluster
ComputeUtil(clusterId) ==
    /\ util' = UtilResult(clusterId, getStackMemoryDisk(samples, clusterId),
                          getStackCpu(samples, clusterId))
    /\ UNCHANGED <<cache, call, clusters, stacks, series, chart, alerts, now, samples, world, req, resources, charts, flight, named>>

---------------------------------------------------------------------------
(* GetStacks                                                               *)

StackStatus_RUNNING == "running"

\* the status a cluster and its app groups are reflected to
StackStatuses == {StackStatus_RUNNING, "error", "installing"}

Swap(data, i, j) == [data EXCEPT ![i] = data[j], ![j] = data[i]]

\* a less function that looks at the other element
Less_other(out, i, j) == out[j].status = StackStatus_RUNNING

\* the less function handed to sort.Slice: it looks at out[i] only
Less(out, i, j) == out[i].status = StackStatus_RUNNING

\* sort.Slice on a slice of at most 12 elements is an insertion sort:
\*   for i := a + 1; i < b; i++ { for j := i; j > a && less(j, j-1); j-- { swap(j, j-1) } }
RECURSIVE SiftDown(_, _)
SiftDown(data, j) ==
    IF j > 1 /\ Less(data, j, j - 1) THEN SiftDown(Swap(data, j, j - 1), j - 1) ELSE data

RECURSIVE InsertionSort(_, _)
InsertionSort(data, i) ==
    IF i > Len(data) THEN data ELSE InsertionSort(SiftDown(data, i), i + 1)

SortSlice(data) == InsertionSort(data, 2)

Percent(text) == IF text # "" THEN text \o " %" ELSE text

\* lines 98-127: one summary per cluster, in the order of the fetch
DashboardStackOf(cluster, stackMemoryDisk, stackCpu) ==
    [id      |-> cluster.id,
     status  |-> cluster.status,
     cpu     |-> Percent(getStackCpu(stackCpu, cluster.id)),
     memory  |-> Percent(getStackMemoryDisk(stackMemoryDisk, cluster.id).memory),
     storage |-> Percent(getStackMemoryDisk(stackMemoryDisk, cluster.id).disk)]

StackList(cs, stackMemoryDisk, stackCpu) ==
    [i \in 1..Len(cs) |-> DashboardStackOf(cs[i], stackMemoryDisk, stackCpu)]

\* the worlds the entry points resolve the endpoint in: a resolvable
\* primary cluster, an organization lookup that fails, a load balancer
\* without ingress
HandlerEnvs ==
    { e \in Envs :
        /\ ~e.clientErr /\ e.primary = "c1"
        /\ \/ ~e.orgErr /\ DOMAIN e.services = {PrimaryService}
              /\ Len(e.services[PrimaryService].ports) = 1
              /\ e.services[PrimaryService].type = "LoadBalancer"
           \/ e.orgErr /\ DOMAIN e.services = {} }

\* where a request fails besides the endpoint resolution: nowhere, in the
\* cluster fetch, creating the thanos client, the memory/disk query, the
\* cpu query, the app-group fetch of the first cluster
StackFailures == {"none", "fetch", "client", "memoryDisk", "cpu", "appGroup"}

\* instant vectors the two queries of GetStacks may return
MemoryDiskVectors ==
    { <<>>,
      << Sample("c1", "node_memory_MemFree_bytes", <<"2">>),
         Sample("c1", "machine_memory_bytes", <<"1", "0">>),
         Sample("c2", "kubelet_volume_stats_used_bytes", <<"1">>),
         Sample("c2", "kubelet_volume_stats_capacity_bytes", <<"4">>) >> }

CpuVectors == { <<>>, << Sample("c2", "", <<"1", "2", ".", "5">>) >> }

StackResponse(out, err, queries) == [done |-> TRUE, out |-> out, err |-> err, queries |-> queries]

NoStacks == [done |-> FALSE, out |-> <<>>, err |-> "", queries |-> 0]

\* lines 78-133, after the cluster fetch: the response, given the endpoint
\* resolution r
StacksAfterFetch(r, fail, stackMemoryDisk, stackCpu) ==
    IF r.err # "" THEN StackResponse(<<>>, "D_INVALID_PRIMARY_STACK", 0)
    ELSE IF fail = "client" THEN StackResponse(<<>>, "failed to create thanos client", 0)
    ELSE IF fail = "memoryDisk" THEN StackResponse(<<>>, "thanos get", 1)
    ELSE IF fail = "cpu" THEN StackResponse(<<>>, "thanos get", 2)
    ELSE IF fail = "appGroup" /\ clusters # <<>> THEN StackResponse(<<>>, "appGroup fetch", 2)
    ELSE StackResponse(SortSlice(StackList(clusters, stackMemoryDisk, stackCpu)), "", 2)

\* GetStacks(ctx, organizationId)
GetStacks(organizationId, env, fail, stackMemoryDisk, stackCpu) ==
    /\ IF fail = "fetch"
       THEN /\ stacks' = StackResponse(<<>>, "cluster fetch", 0)
            /\ UNCHANGED <<cache, call>>
       ELSE LET r == getThanosUrl(cache, organizationId, env)
            IN /\ cache' = r.cache
               /\ call' = [org |-> organizationId, env |-> env, prior |-> cache, res |-> r]
               /\ stacks' = StacksAfterFetch(r, fail, stackMemoryDisk, stackCpu)
    /\ UNCHANGED <<clusters, series, chart, alerts, now, samples, util, world, req, resources, charts, flight, named>>

---------------------------------------------------------------------------
(* GetResources                                                            *)

ClusterStatus_DELETED == "deleted"

\* a total that adds the samples Atoi reports an error for (as 0) and the
\* negative ones
RECURSIVE CpuTotal_all(_)
CpuTotal_all(result) ==
    IF result = <<>> THEN 0 ELSE Atoi(Head(result).value).v + CpuTotal_all(Tail(result))

\* lines 171-180: the sum of the samples that Atoi reads and that are > 0
RECURSIVE CpuTotal(_)
CpuTotal(result) ==
    IF result = <<>> THEN 0
    ELSE LET cpuVal == Atoi(Head(result).value)
         IN (IF cpuVal.ok /\ cpuVal.v > 0 THEN cpuVal.v ELSE 0) + CpuTotal(Tail(result))

\* a total that adds the samples up in KiB and converts the sum to GiB
RECURSIVE KiBTotal(_)
KiBTotal(result) ==
    IF result = <<>> THEN 0
    ELSE LET val == Atoi(Head(result).value)
         IN (IF val.ok /\ val.v > 0 THEN val.v \div 1024 ELSE 0) + KiBTotal(Tail(result))

ByteTotal_afterSum(result) == (KiBTotal(result) \div 1024) \div 1024

\* lines 188-198 and 206-216: every sample that Atoi reads and that is > 0
\* is divided by 1024 three times (integer division) and then added
RECURSIVE ByteTotal(_)
ByteTotal(result) ==
    IF result = <<>> THEN 0
    ELSE LET val == Atoi(Head(result).value)
         IN (IF val.ok /\ val.v > 0 THEN ((val.v \div 1024) \div 1024) \div 1024 ELSE 0)
            + ByteTotal(Tail(result))

\* lines 154-161: the clusters that are not deleted (funk.Filter gives an
\* empty slice, not nil, when none is left)
RECURSIVE StackCount(_)
StackCount(cs) ==
    IF cs = <<>> THEN 0
    ELSE (IF Head(cs).status # ClusterStatus_DELETED THEN 1 ELSE 0) + StackCount(Tail(cs))

\* fmt.Sprintf("%d <unit>", n); "#" stands for the counter word of lines 158
\* and 181
Counted(n) == Itoa(n) \o " #"

GigaBytes(n) == Itoa(n) \o " GB"

ResourceResponse(stack, cpu, memory, storage, err, queries) ==
    [done |-> TRUE, stack |-> stack, cpu |-> cpu, memory |-> memory, storage |-> storage,
     err |-> err, queries |-> queries]

\* where a request fails besides the endpoint resolution: nowhere, creating
\* the thanos client, in the cluster fetch, in the cpu, memory or storage query
ResourceFailures == {"none", "client", "fetch", "cpu", "memory", "storage"}

\* a handler that goes on to the queries whatever the resolution returned
ResourcesAfterResolve_unchecked(r, fail, cpuVector, memoryVector, storageVector) ==
    LET stack == Counted(StackCount(clusters))
        cpu   == Counted(CpuTotal(cpuVector))
        mem   == GigaBytes(ByteTotal(memoryVector))
    IN IF fail = "client"
       THEN ResourceResponse("", "", "", "", "failed to create thanos client", 0)
       ELSE IF fail = "fetch" THEN ResourceResponse("", "", "", "", "cluster fetch", 0)
       ELSE IF fail = "cpu" THEN ResourceResponse(stack, "", "", "", "thanos get", 1)
       ELSE IF fail = "memory" THEN ResourceResponse(stack, cpu, "", "", "thanos get", 2)
       ELSE IF fail = "storage" THEN ResourceResponse(stack, cpu, mem, "", "thanos get", 3)
       ELSE ResourceResponse(stack, cpu, mem, GigaBytes(ByteTotal(storageVector)), "", 3)

\* lines 137-219, after the endpoint resolution r
ResourcesAfterResolve(r, fail, cpuVector, memoryVector, storageVector) ==
    LET stack == Counted(StackCount(clusters))
        cpu   == Counted(CpuTotal(cpuVector))
        mem   == GigaBytes(ByteTotal(memoryVector))
    IN IF r.err # "" THEN ResourceResponse("", "", "", "", "D_INVALID_PRIMARY_STACK", 0)
       ELSE IF fail = "client"
       THEN ResourceResponse("", "", "", "", "failed to create thanos client", 0)
       ELSE IF fail = "fetch" THEN ResourceResponse("", "", "", "", "cluster fetch", 0)
       ELSE IF fail = "cpu" THEN ResourceResponse(stack, "", "", "", "thanos get", 1)
       ELSE IF fail = "memory" THEN ResourceResponse(stack, cpu, "", "", "thanos get", 2)
       ELSE IF fail = "storage" THEN ResourceResponse(stack, cpu, mem, "", "thanos get", 3)
       ELSE ResourceResponse(stack, cpu, mem, GigaBytes(ByteTotal(storageVector)), "", 3)

\* GetResources(ctx, organizationId)
GetResources(organizationId, env, fail, cpuVector, memoryVector, storageVector) ==
    LET r == getThanosUrl(cache, organizationId, env)
    IN /\ cache' = r.cache
       /\ call' = [org |-> organizationId, env |-> env, prior |-> cache, res |-> r]
       /\ resources' = ResourcesAfterResolve(r, fail, cpuVector, memoryVector, storageVector)
                       @@ [memoryVector |-> memoryVector, storageVector |-> storageVector]
       /\ UNCHANGED <<clusters, stacks, series, chart, alerts, now, samples, util, world, req,
                      charts, flight, named>>

---------------------------------------------------------------------------
(* Range charts: the shared x axis and the aligned series                  *)

\* a timestamp of a range sample is a number of tenths of a second;
\* int(math.Round(t)) rounds half away from zero
RoundSeconds(t) == IF t >= 0 THEN (t + 5) \div 10 ELSE -((-t + 5) \div 10)

Contains(xs, x) == \E i \in 1..Len(xs) : xs[i] = x

\* an x axis that takes every sample without the membership test
RECURSIVE AppendTimes_all(_, _)
AppendTimes_all(xAxisData, values) ==
    IF values = <<>> THEN xAxisData
    ELSE AppendTimes_all(Append(xAxisData, Itoa(RoundSeconds(Head(values).t))), Tail(values))

\* lines 481-487: the x axis after the samples of one series
RECURSIVE AppendTimes(_, _)
AppendTimes(xAxisData, values) ==
    IF values = <<>> THEN xAxisData
    ELSE LET x == Itoa(RoundSeconds(Head(values).t))
         IN AppendTimes(IF ~Contains(xAxisData, x) THEN Append(xAxisData, x) ELSE xAxisData,
                        Tail(values))

\* lines 479-488: the x axis of a range result
RECURSIVE XAxisFrom(_, _)
XAxisFrom(xAxisData, result) ==
    IF result = <<>> THEN xAxisData
    ELSE XAxisFrom(AppendTimes(xAxisData, Head(result).values), Tail(result))

XAxisData(result) == XAxisFrom(<<>>, result)

\* getChartYValue(values, xData, percentage): every sample is parsed before
\* its timestamp is compared
RECURSIVE getChartYValue(_, _, _)
getChartYValue(values, xData, percentage) ==
    IF values = <<>> THEN ""
    ELSE LET x == RoundSeconds(Head(values).t)
             y == ParseFloat32(Head(values).v)
         IN IF ~y.ok THEN ""
            ELSE IF Itoa(x) = xData
                 THEN FormatF(IF percentage THEN FMul64(y.v, F32(100)) ELSE y.v, 6)
                 ELSE getChartYValue(Tail(values), xData, percentage)

ChartType_CPU == "CPU"

ChartType_MEMORY == "MEMORY"

ChartType_POD == "POD"

ChartType_TRAFFIC == "TRAFFIC"

ChartType_POD_CALENDAR == "POD_CALENDAR"

RangeTypes == {ChartType_CPU, ChartType_MEMORY, ChartType_POD, ChartType_TRAFFIC}

\* lines 495-498
Percentage(chartType) == chartType = ChartType_CPU \/ chartType = ChartType_MEMORY

\* cells in which a gap is rendered as zero
YAxisData_zero(values, xAxisData, chartType) ==
    [i \in 1..Len(xAxisData) |->
        IF getChartYValue(values, xAxisData[i], Percentage(chartType)) = "" THEN "0"
        ELSE getChartYValue(values, xAxisData[i], Percentage(chartType))]

\* lines 492-500: the cells of one series, one per x axis entry
YAxisData(values, xAxisData, chartType) ==
    [i \in 1..Len(xAxisData) |-> getChartYValue(values, xAxisData[i], Percentage(chartType))]

\* a name key built with the prefix of the endpoint keys
NameKey_shared(clusterId) == "CACHE_KEY_THANOS_URL" \o clusterId

NameKey(clusterId) == "CACHE_KEY_CLUSTER_NAME_FROM_ID" \o clusterId

\* the name the cluster registry holds for a cluster
RegistryName(clusterId) == "name-" \o clusterId

\* a resolver that caches the empty name of a failed lookup
getClusterNameFromId_cacheFailure(c, clusterId, registryDown) ==
    IF CacheGet(c, NameKey(clusterId)).found
    THEN [name |-> CacheGet(c, NameKey(clusterId)).value, err |-> "", cache |-> c, gets |-> 0]
    ELSE IF registryDown
    THEN [name |-> "", err |-> "Failed to get cluster",
          cache |-> CacheSet(c, NameKey(clusterId), ""), gets |-> 1]
    ELSE [name |-> RegistryName(clusterId), err |-> "",
          cache |-> CacheSet(c, NameKey(clusterId), RegistryName(clusterId)), gets |-> 1]

\* getClusterNameFromId(clusterId) against cache c; registryDown: the
\* lookup u.clusterRepo.Get fails
getClusterNameFromId(c, clusterId, registryDown) ==
    IF CacheGet(c, NameKey(clusterId)).found
    THEN [name |-> CacheGet(c, NameKey(clusterId)).value, err |-> "", cache |-> c, gets |-> 0]
    ELSE IF registryDown
    THEN [name |-> "", err |-> "Failed to get cluster", cache |-> c, gets |-> 1]
    ELSE [name |-> RegistryName(clusterId), err |-> "",
          cache |-> CacheSet(c, NameKey(clusterId), RegistryName(clusterId)), gets |-> 1]

NoNamed == [cluster |-> "", prior |-> EmptyCache, res |-> <<>>, asked |-> FALSE]

\* one call of getClusterNameFromId: the cache is updated and the call recorded
ResolveName(clusterId, registryDown) ==
    LET n == getClusterNameFromId(cache, clusterId, registryDown)
    IN /\ cache' = n.cache
       /\ named' = [cluster |-> clusterId, prior |-> cache, res |-> n, asked |-> TRUE]
       /\ UNCHANGED <<call, clusters, stacks, series, chart, alerts, now, samples, util, world, req, resources, charts, flight>>

\* lines 491-511: the series of the chart and the cache after the name
\* lookups, acc = [series, cache, gets]
RECURSIVE ChartSeries(_, _, _, _, _)
ChartSeries(result, xAxisData, chartType, registryDown, acc) ==
    IF result = <<>> THEN acc
    ELSE LET val == Head(result)
             n   == getClusterNameFromId(acc.cache, val.cluster, registryDown)
             unit == [name |-> IF n.err # "" THEN val.cluster ELSE n.name,
                      data |-> YAxisData(val.values, xAxisData, chartType)]
         IN ChartSeries(Tail(result), xAxisData, chartType, registryDown,
                        [series |-> Append(acc.series, unit), cache |-> n.cache,
                         gets |-> acc.gets + n.gets])

---------------------------------------------------------------------------
(* Calendar dates (package time, UTC)                                      *)

\* days since 1970-01-01 of the civil date y-m-d, 1 <= m <= 12
DaysFromCivil(y, m, d) ==
    LET yy  == IF m <= 2 THEN y - 1 ELSE y
        era == yy \div 400
        yoe == yy - era * 400
        doy == (153 * (IF m > 2 THEN m - 3 ELSE m + 9) + 2) \div 5 + d - 1
        doe == yoe * 365 + yoe \div 4 - yoe \div 100 + doy
    IN era * 146097 + doe - 719468

\* the civil date of a day number
CivilFromDays(z) ==
    LET zz  == z + 719468
        era == zz \div 146097
        doe == zz - era * 146097
        yoe == (doe - doe \div 1460 + doe \div 36524 - doe \div 146096) \div 365
        doy == doe - (365 * yoe + yoe \div 4 - yoe \div 100)
        mp  == (5 * doy + 2) \div 153
        m   == IF mp < 10 THEN mp + 3 ELSE mp - 9
    IN [y |-> yoe + era * 400 + (IF m <= 2 THEN 1 ELSE 0),
        m |-> m,
        d |-> doy - (153 * mp + 2) \div 5 + 1]

\* time.Date(year, month, 1, 0, 0, 0, 0, time.UTC) as a day number; a month
\* outside 1..12 is normalised into the neighbouring years
DateOfMonth(year, month) ==
    DaysFromCivil(year + (month - 1) \div 12, ((month - 1) % 12) + 1, 1)

\* n in w digit characters
RECURSIVE DigitSeq(_, _)
DigitSeq(n, w) == IF w = 0 THEN <<>> ELSE Append(DigitSeq(n \div 10, w - 1), DigitChar(n % 10))

\* t.Format("2006-01-02") of a civil date
FormatDate(c) == DigitSeq(c.y, 4) \o <<"-">> \o DigitSeq(c.m, 2) \o <<"-">> \o DigitSeq(c.d, 2)

\* byte values of the characters of a formatted date
ByteOf == [c \in {"-"} \cup DOMAIN DigitValue |-> IF c = "-" THEN 45 ELSE 48 + DigitValue[c]]

CharCode(c) == ByteOf[c]

\* a <= b on strings: bytewise lexicographic order
RECURSIVE StringLeq(_, _)
StringLeq(a, b) ==
    IF a = <<>> THEN TRUE
    ELSE IF b = <<>> THEN FALSE
    ELSE IF CharCode(Head(a)) # CharCode(Head(b)) THEN CharCode(Head(a)) < CharCode(Head(b))
    ELSE StringLeq(Tail(a), Tail(b))

SecondsPerDay == 86400

WindowDays == 30

\* time.Time{}: January 1 of year 1, 00:00 UTC, as a day number
ZeroTime == DaysFromCivil(1, 1, 1)

\* rangeDate(start, end) as the loop of lines 391-395 reads it: the days
\* from start to end, both included, up to the first day that IsZero
RangeDate(start, end) ==
    LET last == IF start <= ZeroTime /\ ZeroTime <= end THEN ZeroTime - 1 ELSE end
    IN [i \in 1..(IF start > last THEN 0 ELSE last - start + 1) |-> start + i - 1]

\* lines 402-408: the alerts created on baseDate
RECURSIVE CountAlerts(_, _)
CountAlerts(as, baseDate) ==
    IF as = <<>> THEN 0
    ELSE (IF FormatDate(Head(as)) = baseDate THEN 1 ELSE 0) + CountAlerts(Tail(as), baseDate)

\* a count cell that treats today as a future day
CountCell_strict(d, as, today) ==
    LET baseDate == FormatDate(CivilFromDays(d))
    IN IF baseDate # FormatDate(today) /\ StringLeq(baseDate, FormatDate(today))
       THEN Itoa(CountAlerts(as, baseDate)) ELSE ""

\* lines 396-410: the count cell of day d
CountCell(d, as, today) ==
    LET baseDate == FormatDate(CivilFromDays(d))
    IN IF StringLeq(baseDate, FormatDate(today)) THEN Itoa(CountAlerts(as, baseDate)) ELSE ""

\* lines 388-421: x axis and the podRestartCount series of the month
Calendar(startDate, endDate, as, today) ==
    LET days == RangeDate(startDate, endDate)
    IN [xAxis |-> [i \in 1..Len(days) |-> Itoa(days[i] * SecondsPerDay)],
        series |-> << [name |-> "podRestartCount",
                       data |-> [i \in 1..Len(days) |-> CountCell(days[i], as, today)]] >>]

\* a validation that compares the months of different years
ValidateMonth_anyYear(yearInt, monthInt, today) ==
    IF today.y < yearInt THEN "Invalid year"
    ELSE IF today.m < monthInt THEN "Invalid month"
    ELSE ""

\* lines 377-381: "" when the month may be charted
ValidateMonth(yearInt, monthInt, today) ==
    IF today.y < yearInt THEN "Invalid year"
    ELSE IF today.y = yearInt /\ today.m < monthInt THEN "Invalid month"
    ELSE ""

---------------------------------------------------------------------------
(* getChartFromPrometheus                                                  *)

ChartResponse(chartType, err, xAxis, data, alertFetches, rangeQueries, nameGets) ==
    [done |-> TRUE, chartType |-> chartType, err |-> err, xAxis |-> xAxis, series |-> data,
     alertFetches |-> alertFetches, rangeQueries |-> rangeQueries, nameGets |-> nameGets]

ChartError(chartType, err, alertFetches, rangeQueries) ==
    ChartResponse(chartType, err, <<>>, <<>>, alertFetches, rangeQueries, 0)

\* lines 473-523: [chart, cache] of a range chart
RangeChart(c, chartType) ==
    IF world.fail = "fetchRange"
    THEN [chart |-> ChartError(chartType, "thanos fetch range", 0, 1), cache |-> c]
    ELSE LET xs == XAxisData(series)
             cs == ChartSeries(series, xs, chartType, world.registryDown,
                               [series |-> <<>>, cache |-> c, gets |-> 0])
         IN [chart |-> ChartResponse(chartType, "", xs, cs.series, 0, 1, cs.gets),
             cache |-> cs.cache]

\* lines 371-468: the chart of the pod-restart calendar
CalendarChart(chartType, year, month) ==
    LET yearInt   == Atoi(year).v
        monthInt  == Atoi(month).v
        startDate == DateOfMonth(yearInt, monthInt)
        endDate   == startDate + WindowDays
        cal       == Calendar(startDate, endDate, alerts, now)
    IN IF ValidateMonth(yearInt, monthInt, now) # ""
       THEN ChartError(chartType, ValidateMonth(yearInt, monthInt, now), 0, 0)
       ELSE IF world.fail = "alerts"
       THEN ChartError(chartType, "fetch pod restart", 1, 0)
       ELSE ChartResponse(chartType, "", cal.xAxis, cal.series, 1, 0, 0)

\* lines 234-524, with the thanos client created: [chart, cache].  The
\* duration and the interval only select the queried time range.
ChartOfType(c, chartType, year, month) ==
    IF chartType \in RangeTypes THEN RangeChart(c, chartType)
    ELSE IF chartType = ChartType_POD_CALENDAR
    THEN [chart |-> CalendarChart(chartType, year, month), cache |-> c]
    ELSE [chart |-> ChartError(chartType, "No data", 0, 0), cache |-> c]

\* getChartFromPrometheus(organizationId, chartType, duration, interval, year, month)
\* against cache c: [chart, cache, res], res the endpoint resolution
ChartCall(c, organizationId, chartType, year, month) ==
    LET r == getThanosUrl(c, organizationId, world.env)
        k == ChartOfType(r.cache, chartType, year, month)
    IN IF r.err # ""
       THEN [chart |-> ChartError(chartType, "D_INVALID_PRIMARY_STACK", 0, 0),
             cache |-> r.cache, res |-> r]
       ELSE IF world.fail = "client"
       THEN [chart |-> ChartError(chartType, "failed to create thanos client", 0, 0),
             cache |-> r.cache, res |-> r]
       ELSE [chart |-> k.chart, cache |-> k.cache, res |-> r]

\* one call of getChartFromPrometheus on the shared cache
getChartFromPrometheus(organizationId, chartType, year, month) ==
    LET k == ChartCall(cache, organizationId, chartType, year, month)
    IN /\ call' = [org |-> organizationId, env |-> world.env, prior |-> cache, res |-> k.res]
       /\ chart' = k.chart
       /\ cache' = k.cache
       /\ UNCHANGED <<clusters, stacks, series, alerts, now, samples, util, world, req,
                      resources, charts, flight, named>>

---------------------------------------------------------------------------
(* GetCharts                                                               *)

ChartType_ALL == "ALL"

\* chartType.All(): the concrete chart types, in the order of the type list
ChartKinds ==
    <<ChartType_CPU, ChartType_MEMORY, ChartType_POD, ChartType_TRAFFIC, ChartType_POD_CALENDAR>>

\* a chart type value that names none of the concrete types
ChartType_ERROR == "ERROR"

ChartsResponse(out, err, tried, queries) ==
    [done |-> TRUE, out |-> out, err |-> err, tried |-> tried, queries |-> queries]

\* a loop that keeps the charts built before a failure
RECURSIVE ChartLoop_partial(_, _, _, _, _, _)
ChartLoop_partial(kinds, organizationId, chartType, year, month, acc) ==
    IF kinds = <<>> THEN acc
    ELSE IF chartType # ChartType_ALL /\ chartType # Head(kinds)
    THEN ChartLoop_partial(Tail(kinds), organizationId, chartType, year, month, acc)
    ELSE LET Visited(k) ==
                 [acc EXCEPT !.cache = k.cache,
                             !.tried = Append(@, Head(kinds)),
                             !.queries = @ + k.chart.rangeQueries + k.chart.alertFetches,
                             !.call = [org |-> organizationId, env |-> world.env,
                                       prior |-> acc.cache, res |-> k.res],
                             !.chart = k.chart]
             After(k, a) ==
                 IF k.chart.err # ""
                 THEN [a EXCEPT !.err = k.chart.err]
                 ELSE ChartLoop_partial(Tail(kinds), organizationId, chartType, year, month,
                           [a EXCEPT !.out = Append(@, k.chart)])
         IN CHOOSE result \in
                UNION { { After(k, a) : a \in {Visited(k)} } :
                        k \in {ChartCall(acc.cache, organizationId, Head(kinds), year, month)} } :
                TRUE

\* lines 56-67: the loop over chartType.All() from the types still to visit;
\* acc = [out, err, cache, tried, queries, call, chart].  The chart of a
\* type (k) and the state after it (a) are bound once, as the elements of
\* singleton sets.
RECURSIVE ChartLoop(_, _, _, _, _, _)
ChartLoop(kinds, organizationId, chartType, year, month, acc) ==
    IF kinds = <<>> THEN acc
    ELSE IF chartType # ChartType_ALL /\ chartType # Head(kinds)
    THEN ChartLoop(Tail(kinds), organizationId, chartType, year, month, acc)
    ELSE LET Visited(k) ==
                 [acc EXCEPT !.cache = k.cache,
                             !.tried = Append(@, Head(kinds)),
                             !.queries = @ + k.chart.rangeQueries + k.chart.alertFetches,
                             !.call = [org |-> organizationId, env |-> world.env,
                                       prior |-> acc.cache, res |-> k.res],
                             !.chart = k.chart]
             After(k, a) ==
                 IF k.chart.err # ""
                 THEN [a EXCEPT !.out = <<>>, !.err = k.chart.err]
                 ELSE ChartLoop(Tail(kinds), organizationId, chartType, year, month,
                           [a EXCEPT !.out = Append(@, k.chart)])
         IN CHOOSE result \in
                UNION { { After(k, a) : a \in {Visited(k)} } :
                        k \in {ChartCall(acc.cache, organizationId, Head(kinds), year, month)} } :
                TRUE

\* GetCharts(ctx, organizationId, chartType, duration, interval, year, month)
GetCharts(organizationId, chartType, year, month) ==
    IF world.fail = "organization"
    THEN /\ charts' = ChartsResponse(<<>>, "invalid organization", <<>>, 0)
         /\ UNCHANGED <<cache, call, chart>>
         /\ UNCHANGED <<clusters, stacks, series, alerts, now, samples, util, world, req,
                        resources, flight, named>>
    ELSE \E a \in {ChartLoop(ChartKinds, organizationId, chartType, year, month,
                             [out |-> <<>>, err |-> "", cache |-> cache, tried |-> <<>>,
                              queries |-> 0, call |-> call, chart |-> chart])} :
            /\ charts' = ChartsResponse(a.out, a.err, a.tried, a.queries)
            /\ cache' = a.cache
            /\ call' = a.call
            /\ chart' = a.chart
            /\ UNCHANGED <<clusters, stacks, series, alerts, now, samples, util, world, req,
                           resources, flight, named>>

---------------------------------------------------------------------------
(* Specifications                                                          *)

MaxClusters == 3

MaxPoints == 3

MaxAlerts == 2

MaxSamples == 2

NoChart == [done |-> FALSE]

NoUtil == [done |-> FALSE]

NoResources == [done |-> FALSE]

NoCharts == [done |-> FALSE]

NoFlight == [calls |-> <<>>, writes |-> <<>>]

NoDate == [y |-> 0, m |-> 0, d |-> 0]

Request(chartType, year, month) == [chartType |-> chartType, year |-> year, month |-> month]

NoRequest == Request("", <<>>, <<>>)

\* a world in which the endpoint resolves, and one in which it does not
EnvUp ==
    [orgErr |-> FALSE, primary |-> "c1", clientErr |-> FALSE,
     services |-> [n \in {PrimaryService} |->
                     [type |-> "LoadBalancer", lbs |-> <<"a.elb">>,
                      ports |-> <<[targetPort |-> "http", port |-> 9090]>>]]]

EnvDown ==
    [orgErr |-> TRUE, primary |-> "c1", clientErr |-> FALSE, services |-> [n \in {} |-> <<>>]]

\* fail: the collaborator that fails during a chart request, if any
Worlds == [env : {EnvUp, EnvDown}, fail : {"none", "client", "fetchRange", "alerts"},
           registryDown : BOOLEAN]

Quiet == [env |-> EnvUp, fail |-> "none", registryDown |-> FALSE]

Idle ==
    /\ cache = EmptyCache /\ call = NoCall
    /\ clusters = <<>> /\ stacks = NoStacks
    /\ series = <<>> /\ chart = NoChart
    /\ alerts = <<>> /\ now = NoDate
    /\ samples = <<>> /\ util = NoUtil
    /\ resources = NoResources /\ charts = NoCharts /\ flight = NoFlight /\ named = NoNamed
    /\ world = Quiet /\ req = NoRequest

\* the endpoint resolver on the shared cache
Init == Idle

Next ==
    \/ \E organizationId \in Orgs, env \in Envs : ResolveEndpoint(organizationId, env)
    \/ \E k \in DOMAIN cache : Expire(k)

Spec == Init /\ [][Next]_vars

\* the clusters of an organization: ids in fetch order, any statuses
ClusterLists ==
    UNION { { [i \in 1..n |-> [id |-> "c" \o Itoa(i), status |-> st[i]]] :
              st \in [1..n -> StackStatuses] } : n \in 0..MaxClusters }

InitStacks ==
    /\ cache = EmptyCache /\ call = NoCall
    /\ clusters \in ClusterLists /\ stacks = NoStacks
    /\ series = <<>> /\ chart = NoChart
    /\ alerts = <<>> /\ now = NoDate
    /\ samples = <<>> /\ util = NoUtil
    /\ resources = NoResources /\ charts = NoCharts /\ flight = NoFlight /\ named = NoNamed
    /\ world = Quiet /\ req = NoRequest

NextStacks ==
    \/ \E env \in HandlerEnvs, fail \in StackFailures,
          stackMemoryDisk \in MemoryDiskVectors, stackCpu \in CpuVectors :
          GetStacks("o1", env, fail, stackMemoryDisk, stackCpu)
    \/ \E k \in DOMAIN cache : Expire(k)

SpecStacks == InitStacks /\ [][NextStacks]_vars

\* range samples: timestamps 1.0, 1.5 and 2.0 s, a number and a malformed value
RangeSamples == [t : {10, 15, 20}, v : {<<"0", ".", "3">>, <<"x">>}]

\* the samples of one series: n samples with non-decreasing timestamps
ValueLists(n) ==
    { vs \in [1..n -> RangeSamples] : \A i \in 1..(n - 1) : vs[i].t <= vs[i + 1].t }

\* the clusters that report series, in the order of the result
RangeClusters == <<"c1", "c2">>

\* range results of the first k clusters with at most budget samples in all
RECURSIVE ResultsOf(_, _)
ResultsOf(k, budget) ==
    IF k = 0 THEN {<<>>}
    ELSE UNION { { Append(r, [cluster |-> RangeClusters[k], values |-> vs]) :
                   r \in ResultsOf(k - 1, budget - n), vs \in ValueLists(n) } :
                 n \in 0..budget }

RangeResults == UNION { ResultsOf(k, MaxPoints) : k \in 0..Len(RangeClusters) }

Failing(w) == w.env.orgErr \/ w.fail # "none"

\* a chart request that fails reads no series and no alerts
InitRange ==
    /\ cache = EmptyCache /\ call = NoCall
    /\ clusters = <<>> /\ stacks = NoStacks
    /\ world \in { w \in Worlds : w.fail \in {"none", "client", "fetchRange"} }
    /\ series \in (IF Failing(world) THEN {<<>>} ELSE RangeResults)
    /\ req \in { Request(chartType, <<>>, <<>>) : chartType \in {ChartType_CPU, ChartType_POD} }
    /\ chart = NoChart
    /\ alerts = <<>> /\ now = NoDate
    /\ samples = <<>> /\ util = NoUtil
    /\ resources = NoResources /\ charts = NoCharts /\ flight = NoFlight /\ named = NoNamed

\* the chart request is served
ServeChart == getChartFromPrometheus("o1", req.chartType, req.year, req.month)

NextRange == ServeChart

SpecRange == InitRange /\ [][NextRange]_vars

Date(y, m, d) == [y |-> y, m |-> m, d |-> d]

\* the local calendar date of time.Now()
Todays == {Date(2023, 12, 31), Date(2024, 2, 15), Date(2024, 3, 1)}

\* the calendar dates of CreatedAt of the alerts
AlertDates == {Date(2023, 12, 1), Date(2024, 2, 15), Date(2024, 2, 16), Date(2024, 3, 2)}

AlertLists == UNION { [1..n -> AlertDates] : n \in 0..MaxAlerts }

YearTexts == {<<"2", "0", "2", "3">>, <<"2", "0", "2", "4">>}

MonthTexts == {<<"2">>, <<"3">>, <<"1", "2">>, <<"1", "3">>, <<"x">>}

InitCalendar ==
    /\ cache = EmptyCache /\ call = NoCall
    /\ clusters = <<>> /\ stacks = NoStacks
    /\ series = <<>> /\ chart = NoChart
    /\ world \in { w \in Worlds : w.fail \in {"none", "client", "alerts"} /\ ~w.registryDown }
    /\ alerts \in (IF Failing(world) THEN {<<>>} ELSE AlertLists)
    /\ now \in Todays
    /\ req \in { Request(ChartType_POD_CALENDAR, year, month) :
                 year \in YearTexts, month \in MonthTexts }
               \cup {Request(ChartType_POD_CALENDAR, <<"1">>, <<"1">>)}
    /\ samples = <<>> /\ util = NoUtil
    /\ resources = NoResources /\ charts = NoCharts /\ flight = NoFlight /\ named = NoNamed

NextCalendar == ServeChart

SpecCalendar == InitCalendar /\ [][NextCalendar]_vars

MemoryDiskNames ==
    {"node_memory_MemFree_bytes", "machine_memory_bytes",
     "kubelet_volume_stats_used_bytes", "kubelet_volume_stats_capacity_bytes"}

\* sample values: zero, small and larger byte counts, a negative number and
\* text that is no number
ValueTexts ==
    {<<"0">>, <<"2">>, <<"1", "0">>, <<"1", "7", "6">>, <<"9", "4", "7">>, <<"-", "5">>, <<"x">>}

\* the samples of cluster c1 and one sample of another cluster
UtilSamples ==
    { Sample("c1", name, value) : name \in MemoryDiskNames, value \in ValueTexts }
        \cup { Sample("c2", "machine_memory_bytes", <<"9", "4", "7">>) }

InitUtil ==
    /\ cache = EmptyCache /\ call = NoCall
    /\ clusters = <<>> /\ stacks = NoStacks
    /\ series = <<>> /\ chart = NoChart
    /\ alerts = <<>> /\ now = NoDate
    /\ samples \in UNION { [1..n -> UtilSamples] : n \in 0..MaxSamples }
    /\ util = NoUtil
    /\ resources = NoResources /\ charts = NoCharts /\ flight = NoFlight /\ named = NoNamed
    /\ world = Quiet /\ req = NoRequest

NextUtil == \E clusterId \in {"c1", "c2"} : ComputeUtil(clusterId)

SpecUtil == InitUtil /\ [][NextUtil]_vars

MaxCores == 4

\* the values of the per-cluster cpu samples
CoreTexts == {<<"3", "2">>, <<"1", "2">>, <<"-", "5">>, <<"a", "b", "c">>}

\* one sample per cluster, clusters c1, c2, ...
CoreVectors ==
    UNION { { [i \in 1..n |-> Sample("c" \o Itoa(i), "", vs[i])] : vs \in [1..n -> CoreTexts] } :
            n \in 0..MaxCores }

\* the results of the memory and the storage query, one sample per
\* cluster: whole GiB, one byte less than 1 GiB and than 2 GiB, 1.5 GiB, a
\* few bytes, zero, a negative number and text that is no number
ByteVectors ==
    { [memory |-> <<>>, storage |-> <<>>],
      [memory  |-> << Sample("c1", "", <<"1", "0", "7", "3", "7", "4", "1", "8", "2", "4">>) >>,
       storage |-> << Sample("c1", "", <<"2", "1", "4", "7", "4", "8", "3", "6", "4", "7">>),
                      Sample("c2", "", <<"5", "1", "2">>) >>],
      [memory  |-> << Sample("c1", "", <<"1", "0", "7", "3", "7", "4", "1", "8", "2", "3">>),
                      Sample("c2", "", <<"1", "0", "7", "3", "7", "4", "1", "8", "2", "3">>) >>,
       storage |-> << Sample("c1", "", <<"-", "5">>),
                      Sample("c2", "", <<"x">>),
                      Sample("c3", "", <<"1", "0", "7", "3", "7", "4", "1", "8", "2", "4">>) >>],
      [memory  |-> << Sample("c1", "", <<"0">>) >>,
       storage |-> << Sample("c1", "", <<"1", "6", "1", "0", "6", "1", "2", "7", "3", "6">>),
                      Sample("c2", "", <<"1", "6", "1", "0", "6", "1", "2", "7", "3", "6">>) >>] }

\* the clusters of the organization as the registry lists them
ResourceClusters ==
    { <<>>, << [id |-> "c1", status |-> "running"], [id |-> "c2", status |-> ClusterStatus_DELETED] >> }

\* the worlds of a GetResources request; a request that ends before the
\* cpu query is answered reads no cpu samples
ResourceWorlds == [env : HandlerEnvs, fail : ResourceFailures, registryDown : {FALSE}]

CpuRead(w) == w.env = EnvUp /\ w.fail \in {"none", "memory", "storage"}

InitResources ==
    /\ cache = EmptyCache /\ call = NoCall
    /\ clusters \in ResourceClusters /\ stacks = NoStacks
    /\ series = <<>> /\ chart = NoChart
    /\ alerts = <<>> /\ now = NoDate
    /\ world \in ResourceWorlds
    /\ samples \in (IF CpuRead(world) THEN CoreVectors ELSE {<<>>})
    /\ util = NoUtil
    /\ resources = NoResources /\ charts = NoCharts /\ flight = NoFlight /\ named = NoNamed
    /\ req = NoRequest

NextResources ==
    \E bytes \in ByteVectors :
        GetResources("o1", world.env, world.fail, samples, bytes.memory, bytes.storage)

SpecResources == InitResources /\ [][NextResources]_vars

\* the worlds of a GetCharts request
ChartWorlds ==
    [env : {EnvUp, EnvDown}, fail : {"none", "organization", "client", "fetchRange", "alerts"},
     registryDown : BOOLEAN]

\* what the range queries of a GetCharts request return
ChartResults ==
    { <<>>,
      << [cluster |-> "c1", values |-> << [t |-> 10, v |-> <<"0", ".", "3">>] >>] >>,
      << [cluster |-> "c1", values |-> << [t |-> 10, v |-> <<"0", ".", "3">>] >>],
         [cluster |-> "c2", values |-> << [t |-> 20, v |-> <<"x">>] >>] >> }

\* the chart types a request may name
RequestTypes == { ChartKinds[i] : i \in 1..Len(ChartKinds) } \cup {ChartType_ALL, ChartType_ERROR}

InitCharts ==
    /\ cache = EmptyCache /\ call = NoCall
    /\ clusters = <<>> /\ stacks = NoStacks
    /\ world \in ChartWorlds
    /\ series \in (IF Failing(world) THEN {<<>>} ELSE ChartResults)
    /\ alerts \in (IF Failing(world) THEN {<<>>}
                   ELSE {<<>>, <<Date(2024, 2, 15)>>})
    /\ chart = NoChart
    /\ now = Date(2024, 2, 15)
    /\ req \in { Request(chartType, <<"2", "0", "2", "4">>, month) :
                 chartType \in RequestTypes, month \in {<<"2">>, <<"3">>} }
    /\ samples = <<>> /\ util = NoUtil
    /\ resources = NoResources /\ charts = NoCharts /\ flight = NoFlight /\ named = NoNamed

\* the GetCharts request is served
ServeCharts == GetCharts("o1", req.chartType, req.year, req.month)

NextCharts == ServeCharts

SpecCharts == InitCharts /\ [][NextCharts]_vars

\* every place where one of the three entry points may fail
EntryFailures == StackFailures \cup ResourceFailures \cup {"organization", "fetchRange", "alerts"}

EntryWorlds == [env : HandlerEnvs, fail : EntryFailures, registryDown : {FALSE}]

\* the three entry points of one organization on the shared cache
InitEntry ==
    /\ cache = EmptyCache /\ call = NoCall
    /\ clusters \in { <<>>, << [id |-> "c1", status |-> "running"] >> }
    /\ stacks = NoStacks
    /\ world \in EntryWorlds
    /\ series = << [cluster |-> "c1", values |-> << [t |-> 10, v |-> <<"0", ".", "3">>] >>] >>
    /\ alerts = <<Date(2024, 2, 15)>>
    /\ chart = NoChart
    /\ now = Date(2024, 2, 15)
    /\ req \in { Request(chartType, <<"2", "0", "2", "4">>, <<"2">>) :
                 chartType \in {ChartType_CPU, ChartType_POD_CALENDAR, ChartType_ALL} }
    /\ samples = << Sample("c1", "", <<"3", "2">>) >>
    /\ util = NoUtil
    /\ resources = NoResources /\ charts = NoCharts /\ flight = NoFlight /\ named = NoNamed

NextEntry ==
    \/ \E stackMemoryDisk \in MemoryDiskVectors, stackCpu \in CpuVectors :
          GetStacks("o1", world.env, world.fail, stackMemoryDisk, stackCpu)
    \/ \E bytes \in ByteVectors :
          GetResources("o1", world.env, world.fail, samples, bytes.memory, bytes.storage)
    \/ ServeCharts

SpecEntry == InitEntry /\ [][NextEntry]_vars

---------------------------------------------------------------------------
(* getThanosUrl called from concurrent requests                            *)

\* the request goroutines that call getThanosUrl for one organization
MaxFlights == 3

Flights == 1..MaxFlights

\* the primary service is gone and thanos-query answers at another address
EnvMoved ==
    [orgErr |-> FALSE, primary |-> "c1", clientErr |-> FALSE,
     services |-> [n \in {FallbackService} |->
                     [type |-> "LoadBalancer", lbs |-> <<"b.elb", "a.elb">>,
                      ports |-> <<[targetPort |-> "https", port |-> 443],
                                  [targetPort |-> "http", port |-> 9090]>>]]]

\* the load balancer of the primary service has no ingress yet
EnvBare ==
    [orgErr |-> FALSE, primary |-> "c1", clientErr |-> FALSE,
     services |-> [n \in {PrimaryService} |->
                     [type |-> "LoadBalancer", lbs |-> <<>>,
                      ports |-> <<[targetPort |-> "http", port |-> 9090]>>]]]

\* what a call may find when it makes its lookups
FlightEnvs == {EnvUp, EnvMoved, EnvBare, EnvDown}

\* a call in flight: pc is "get" before line 529, "lookup" after a miss,
\* "set" before line 565 and "done" after the return
FlightCall(pc, hit, env, out, err) ==
    [pc |-> pc, hit |-> hit, env |-> env, out |-> out, err |-> err]

Entering == FlightCall("get", FALSE, <<>>, "", "")

SetFlight(g, c, writes) ==
    flight' = [calls |-> [flight.calls EXCEPT ![g] = c], writes |-> writes]

\* lines 529-532: u.cache.Get, one atomic read of the shared cache
FlightGet(g, organizationId) ==
    /\ flight.calls[g].pc = "get"
    /\ LET v == CacheGet(cache, ThanosKey(organizationId))
       IN SetFlight(g, IF v.found THEN FlightCall("done", TRUE, <<>>, v.value, "")
                       ELSE FlightCall("lookup", FALSE, <<>>, "", ""),
                    flight.writes)
    /\ UNCHANGED <<cache, call, clusters, stacks, series, chart, alerts, now, samples, util, world, req, resources, charts, named>>

\* lines 534-564 and 568: the lookups after a miss, which touch no shared
\* state; the call returns here unless it goes on to line 565
FlightLookup(g, organizationId, env) ==
    /\ flight.calls[g].pc = "lookup"
    /\ LET r == getThanosUrl(EmptyCache, organizationId, env)
       IN SetFlight(g, IF r.cache # EmptyCache THEN FlightCall("set", FALSE, env, r.out, "")
                       ELSE FlightCall("done", FALSE, env, r.out, r.err),
                    flight.writes)
    /\ UNCHANGED <<cache, call, clusters, stacks, series, chart, alerts, now, samples, util, world, req, resources, charts, named>>

\* lines 565-568: u.cache.Set, one atomic write, and the return
FlightSet(g, organizationId) ==
    /\ flight.calls[g].pc = "set"
    /\ cache' = CacheSet(cache, ThanosKey(organizationId), flight.calls[g].out)
    /\ SetFlight(g, [flight.calls[g] EXCEPT !.pc = "done"],
                 Append(flight.writes, [g |-> g, out |-> flight.calls[g].out]))
    /\ UNCHANGED <<call, clusters, stacks, series, chart, alerts, now, samples, util, world, req, resources, charts, named>>

InitFlights ==
    /\ cache = EmptyCache /\ call = NoCall
    /\ clusters = <<>> /\ stacks = NoStacks
    /\ series = <<>> /\ chart = NoChart
    /\ alerts = <<>> /\ now = NoDate
    /\ samples = <<>> /\ util = NoUtil
    /\ resources = NoResources /\ charts = NoCharts
    /\ world = Quiet /\ req = NoRequest
    /\ flight = [calls |-> [g \in Flights |-> Entering], writes |-> <<>>]
    /\ named = NoNamed

NextFlights ==
    \E g \in Flights :
        \/ FlightGet(g, "o1")
        \/ \E env \in FlightEnvs : FlightLookup(g, "o1", env)
        \/ FlightSet(g, "o1")

SpecFlights == InitFlights /\ [][NextFlights]_vars

---------------------------------------------------------------------------
(* Endpoints and cluster names in the one cache                            *)

\* identifiers that occur both as organization id and as cluster id
SharedIds == {"a", "b"}

InitKeys == Idle

NextKeys ==
    \/ \E organizationId \in SharedIds, env \in FlightEnvs : ResolveEndpoint(organizationId, env)
    \/ \E clusterId \in SharedIds, registryDown \in BOOLEAN : ResolveName(clusterId, registryDown)
    \/ \E k \in DOMAIN cache : Expire(k)

SpecKeys == InitKeys /\ [][NextKeys]_vars

---------------------------------------------------------------------------
(* Endpoint resolution claims                                              *)

Called == call.org # ""

\* C1: a call of getThanosUrl that finds the organization's entry in the
\* cache returns exactly that entry, without error, and makes no
\* organization lookup, no client lookup and no service call.
C1_CacheHit ==
    (Called /\ ThanosKey(call.org) \in DOMAIN call.prior) =>
        /\ call.res.out = call.prior[ThanosKey(call.org)]
        /\ call.res.err = ""
        /\ call.res.orgGets = 0
        /\ call.res.clientGets = 0
        /\ call.res.svcGets = <<>>

\* a second call for an organization whose first call cached "http://a.elb:9090"
C1_Witness ==
    /\ Called
    /\ ThanosKey(call.org) \in DOMAIN call.prior
    /\ call.res.out = "http://a.elb:9090"
    /\ call.env.orgErr

\* the service the call composed its endpoint from, if it found one
FoundService(env) ==
    IF PrimaryService \in DOMAIN env.services THEN env.services[PrimaryService]
    ELSE env.services[FallbackService]

\* C2: a call of getThanosUrl that returns an error leaves the cache as it
\* was; the cache changes only in a call that returns no error and a
\* non-empty endpoint composed from the service found, and then only the
\* organization's entry is written, with that endpoint.
C2_FailuresNotCached ==
    Called =>
        /\ call.res.err # "" => call.res.cache = call.prior
        /\ call.res.cache # call.prior =>
              /\ call.res.err = ""
              /\ call.res.out # ""
              /\ DOMAIN call.env.services # {}
              /\ call.res.out = ComposeUrl(FoundService(call.env))
              /\ call.res.cache = CacheSet(call.prior, ThanosKey(call.org), call.res.out)

\* a failed call (the service is no load balancer) made while another
\* organization's endpoint is cached
C2_Witness ==
    /\ Called
    /\ call.res.err = "Service type is not LoadBalancer"
    /\ DOMAIN call.prior # {}
    /\ call.res.cache = call.prior

---------------------------------------------------------------------------
(* GetStacks claims                                                        *)

Running(stack) == stack.status = StackStatus_RUNNING

\* position of the cluster of a summary in the fetch order
FetchIndex(id) == CHOOSE i \in 1..Len(clusters) : clusters[i].id = id

Answered == stacks.done /\ stacks.err = ""

C4_Stable ==
    Answered =>
        \A p, q \in 1..Len(stacks.out) :
            (p < q /\ Running(stacks.out[p]) = Running(stacks.out[q]))
                => FetchIndex(stacks.out[p].id) < FetchIndex(stacks.out[q].id)

\* the running entries of the fetch come back in reverse fetch order
C4_Witness ==
    /\ Answered
    /\ Len(clusters) = 3
    /\ Running(clusters[1]) /\ ~Running(clusters[2]) /\ Running(clusters[3])
    /\ stacks.out[1].id = "c3" /\ stacks.out[2].id = "c1"

---------------------------------------------------------------------------
(* Range chart claims                                                      *)

Charted == chart.done /\ chart.err = "" /\ chart.chartType \in RangeTypes

\* the rounded timestamps of the samples of one series, as the axis shows them
Stamps(values) == [p \in 1..Len(values) |-> Itoa(RoundSeconds(values[p].t))]

StampSet(values) == { Stamps(values)[p] : p \in 1..Len(values) }

\* the rounded timestamps in series order, then sample order
RECURSIVE AllStamps(_)
AllStamps(result) ==
    IF result = <<>> THEN <<>> ELSE Stamps(Head(result).values) \o AllStamps(Tail(result))

FirstSeen(flat, x) == CHOOSE p \in 1..Len(flat) : flat[p] = x /\ \A q \in 1..(p - 1) : flat[q] # x

RECURSIVE SumUnique(_)
SumUnique(result) ==
    IF result = <<>> THEN 0 ELSE Cardinality(StampSet(Head(result).values)) + SumUnique(Tail(result))

DisjointStamps(result) ==
    \A k, l \in 1..Len(result) :
        k # l => StampSet(result[k].values) \cap StampSet(result[l].values) = {}

\* C5: the x axis of a range chart holds every rounded timestamp of every
\* series exactly once and nothing else, in the order in which the
\* timestamps are first seen (series order, then sample order); when the
\* series have pairwise disjoint sets of rounded timestamps its length is
\* the sum of the sizes of these sets.
C5_SharedAxis ==
    Charted =>
        LET flat == AllStamps(series)
            xs   == chart.xAxis
        IN /\ \A i \in 1..Len(xs) : \E p \in 1..Len(flat) : flat[p] = xs[i]
           /\ \A p \in 1..Len(flat) : Cardinality({ i \in 1..Len(xs) : xs[i] = flat[p] }) = 1
           /\ \A i, j \in 1..Len(xs) : i < j => FirstSeen(flat, xs[i]) < FirstSeen(flat, xs[j])
           /\ DisjointStamps(series) => Len(xs) = SumUnique(series)

\* samples at 2.0 s in the first series, at 1.0 s and 1.5 s in the second:
\* 1.5 s rounds to the 2 that is already on the axis, and 2 stays before 1
C5_Witness ==
    /\ Charted
    /\ Len(AllStamps(series)) = 3
    /\ chart.xAxis = <<"2", "1">>

\* C6: a range chart has one series per result series, every series has one
\* cell per x axis entry, and the cell of an entry that is the rounded
\* timestamp of no sample of the series is the empty string.
C6_Gaps ==
    Charted =>
        /\ Len(chart.series) = Len(series)
        /\ \A k \in 1..Len(chart.series) :
              /\ Len(chart.series[k].data) = Len(chart.xAxis)
              /\ \A i \in 1..Len(chart.xAxis) :
                    chart.xAxis[i] \notin StampSet(series[k].values)
                        => chart.series[k].data[i] = ""

\* two series: at some axis entry the first has a value and the second no sample
C6_Witness ==
    /\ Charted
    /\ Len(series) = 2
    /\ \E i \in 1..Len(chart.xAxis) :
          /\ chart.series[1].data[i] # ""
          /\ chart.xAxis[i] \notin StampSet(series[2].values)
          /\ chart.series[2].data[i] = ""

\* the value of a sample as the chart renders it
Rendered(v, chartType) ==
    FormatF(IF Percentage(chartType) THEN FMul64(ParseFloat32(v).v, F32(100))
            ELSE ParseFloat32(v).v, 6)

\* C7: when the first sample of a series whose rounded timestamp equals an
\* x axis entry has a value that parses as a number, the cell of the series
\* at that entry is that value formatted, whatever the other samples hold.
C7_ParseLocal ==
    Charted =>
        \A k \in 1..Len(series), i \in 1..Len(chart.xAxis) :
            LET vs == series[k].values
                ms == { p \in 1..Len(vs) : Stamps(vs)[p] = chart.xAxis[i] }
            IN ms # {} =>
                  LET p == CHOOSE m \in ms : \A n \in ms : m <= n
                  IN ParseFloat32(vs[p].v).ok
                        => chart.series[k].data[i] = Rendered(vs[p].v, chart.chartType)

\* a malformed sample at 1.0 s before a sample "0.3" at 2.0 s: the cell at
\* entry 2 is empty although its own sample parses
C7_Witness ==
    /\ Charted
    /\ Len(series) = 1
    /\ Len(series[1].values) = 2
    /\ series[1].values[1] = [t |-> 10, v |-> <<"x">>]
    /\ series[1].values[2] = [t |-> 20, v |-> <<"0", ".", "3">>]
    /\ chart.xAxis = <<"1", "2">>
    /\ chart.series[1].data = <<"", "">>

---------------------------------------------------------------------------
(* Calendar claims                                                         *)

\* the request reached the calendar branch: the endpoint resolved and the
\* thanos client was created
InCalendar ==
    /\ chart.done /\ chart.chartType = ChartType_POD_CALENDAR
    /\ call.res.err = "" /\ world.fail # "client"

YearOf(r) == Atoi(r.year).v

MonthOf(r) == Atoi(r.month).v

FutureMonth(year, month, today) == year > today.y \/ (year = today.y /\ month > today.m)

InvalidRange == {"Invalid year", "Invalid month"}

\* C8: the calendar request fails with an invalid-range error when the year
\* is after the current year or the year is the current year and the month
\* is after the current month; then no alerts are fetched and no chart is
\* returned.  For every other year and month the validation does not fail.
C8_Validation ==
    InCalendar =>
        IF FutureMonth(YearOf(req), MonthOf(req), now)
        THEN /\ chart.err \in InvalidRange
             /\ chart.alertFetches = 0
             /\ chart.xAxis = <<>> /\ chart.series = <<>>
        ELSE chart.err \notin InvalidRange

\* today is 2024-02-15 and March 2024 is asked for
C8_Witness ==
    /\ InCalendar
    /\ now = Date(2024, 2, 15)
    /\ YearOf(req) = 2024 /\ MonthOf(req) = 3
    /\ chart.err = "Invalid month"

DateAfter(a, b) ==
    a.y > b.y \/ (a.y = b.y /\ (a.m > b.m \/ (a.m = b.m /\ a.d > b.d)))

CalendarCharted == InCalendar /\ chart.err = ""

\* the civil date of the i-th bucket
BucketDate(i) == CivilFromDays(DateOfMonth(YearOf(req), MonthOf(req)) + i - 1)

\* C9: the count cell of a bucket whose date is after today's date is the
\* empty string; the cell of a bucket on or before today is the decimal
\* number of alerts created on the bucket's date ("0" when there are none).
C9_Buckets ==
    CalendarCharted =>
        /\ Len(chart.series) = 1
        /\ Len(chart.series[1].data) = Len(chart.xAxis)
        /\ \A i \in 1..Len(chart.xAxis) :
              chart.series[1].data[i] =
                  IF DateAfter(BucketDate(i), now) THEN ""
                  ELSE Itoa(Cardinality({ j \in 1..Len(alerts) : alerts[j] = BucketDate(i) }))

\* February 2024 seen on 2024-02-15 with an alert of today and one dated
\* tomorrow: the 14th has "0", the 15th "1", the 16th is empty
C9_Witness ==
    /\ CalendarCharted
    /\ now = Date(2024, 2, 15)
    /\ YearOf(req) = 2024 /\ MonthOf(req) = 2
    /\ \E j \in 1..Len(alerts) : alerts[j] = Date(2024, 2, 16)
    /\ chart.series[1].data[14] = "0"
    /\ chart.series[1].data[15] = "1"
    /\ chart.series[1].data[16] = ""

---------------------------------------------------------------------------
(* Utilization claims                                                      *)

\* the samples of the cluster asked for that carry a metric name
SamplesOf(name) ==
    { i \in 1..Len(samples) : samples[i].cluster = util.cluster /\ samples[i].name = name }

\* every metric is reported at most once for the cluster
Unambiguous == \A name \in MemoryDiskNames : Cardinality(SamplesOf(name)) <= 1

\* the reading of a metric: 0 when it is absent or no number
Reading(name) ==
    IF SamplesOf(name) = {} THEN 0
    ELSE Atoi(samples[CHOOSE i \in SamplesOf(name) : TRUE].value).v

\* c hundredths with two decimals
CentsText(c) ==
    (IF c < 0 THEN "-" ELSE "") \o ItoaNat(Abs(c) \div 100) \o "." \o Pad(Abs(c) % 100, 2)

\* the hundredths c with |c/100 - 100 * n / d| <= slack / (200 * d), d > 0
CentsNear(n, d, slack) ==
    LET q == (10000 * n) \div d
    IN { c \in (q - 2)..(q + 2) : 2 * Abs(c * d - 10000 * n) <= slack }

FirstReading(name) ==
    IF SamplesOf(name) = {} THEN 0
    ELSE Atoi(samples[CHOOSE i \in SamplesOf(name) : \A j \in SamplesOf(name) : i <= j].value).v

\* the samples of the cluster asked for
ClusterSamples == { i \in 1..Len(samples) : samples[i].cluster = util.cluster }

\* the cpu text of the first sample of the cluster
FirstCpu ==
    IF ClusterSamples = {} THEN ""
    ELSE LET v == samples[CHOOSE i \in ClusterSamples : \A j \in ClusterSamples : i <= j].value
         IN IF ParseFloat32(v).ok THEN FormatF(ParseFloat32(v).v, 2) ELSE ""

\* C11: with several samples of the same cluster (and metric name) the
\* memory, disk and cpu values of the cluster are computed from the first
\* such sample in list order; later duplicates are ignored.
C11_FirstMatchWins ==
    util.done =>
        /\ util.memory = MemoryPercent(FirstReading("node_memory_MemFree_bytes"),
                                       FirstReading("machine_memory_bytes"))
        /\ util.disk = DiskPercent(FirstReading("kubelet_volume_stats_used_bytes"),
                                   FirstReading("kubelet_volume_stats_capacity_bytes"))
        /\ util.cpu = FirstCpu

\* total memory reported as 10 and then as 0: the later sample decides and
\* the memory percentage is empty
C11_Witness ==
    /\ util.done /\ util.cluster = "c1"
    /\ samples = << Sample("c1", "machine_memory_bytes", <<"1", "0">>),
                    Sample("c1", "machine_memory_bytes", <<"0">>) >>
    /\ util.memory = ""
    /\ util.cpu = "10.00"

---------------------------------------------------------------------------
(* GetResources claims                                                     *)

\* value of the text of a whole number that is not negative: digits only
\* (an optional sign "+" is accepted as Atoi accepts it)
WholeNumber(cs) ==
    /\ cs # <<>>
    /\ LET ds == IF cs[1] = "+" THEN Tail(cs) ELSE cs
       IN ds # <<>> /\ \A i \in 1..Len(ds) : ds[i] \in {Digits[d] : d \in 1..10}

WholeValue(cs) == DigitsVal(IF cs[1] = "+" THEN Tail(cs) ELSE cs)

RECURSIVE SumWhole(_)
SumWhole(result) ==
    IF result = <<>> THEN 0
    ELSE (IF WholeNumber(Head(result).value) THEN WholeValue(Head(result).value) ELSE 0)
         + SumWhole(Tail(result))

\* the cpu query was answered
CpuCounted == resources.done /\ resources.queries >= 2

\* C12: the cpu total GetResources reports is the sum of the cpu samples
\* that are whole numbers and not negative; negative and unparsable samples
\* neither change the sum nor fail the request.
C12_CpuTotal ==
    /\ CpuCounted => resources.cpu = Counted(SumWhole(samples))
    /\ (resources.done /\ resources.err = "") => resources.queries = 3

\* samples "32", "12", "-5", "abc" give 44
C12_Witness ==
    /\ resources.done /\ resources.err = ""
    /\ Len(samples) = 4
    /\ samples[1].value = <<"3", "2">> /\ samples[2].value = <<"1", "2">>
    /\ samples[3].value = <<"-", "5">> /\ samples[4].value = <<"a", "b", "c">>
    /\ resources.cpu = Counted(44)

---------------------------------------------------------------------------
(* GetCharts claims                                                        *)

KnownKinds == { ChartKinds[i] : i \in 1..Len(ChartKinds) }

\* the organization of the request exists
Admitted == charts.done /\ world.fail # "organization"

\* C13: GetCharts called with a chart type that is neither a known type nor
\* "all" fails with the no-data error and returns no charts.
C13_UnknownKind ==
    (Admitted /\ req.chartType \notin KnownKinds \cup {ChartType_ALL}) =>
        /\ charts.err = "No data"
        /\ charts.out = <<>>

\* a request for an unknown type is answered without error, without charts
\* and without building any chart
C13_Witness ==
    /\ Admitted
    /\ req.chartType = ChartType_ERROR
    /\ charts.err = "" /\ charts.out = <<>> /\ charts.tried = <<>>

\* the chart types a request selects, in the order of the type list
Selected(chartType) ==
    IF chartType = ChartType_ALL THEN ChartKinds
    ELSE IF chartType \in KnownKinds THEN <<chartType>>
    ELSE <<>>

\* C20: GetCharts with "all" returns one chart per concrete chart type, in
\* the order of the type list; with one known type it returns the one chart
\* of that type.  When building a chart fails the call returns that error and
\* no charts, and the types after the failing one are not built.
C20_AllOrNothing ==
    (Admitted /\ req.chartType \in KnownKinds \cup {ChartType_ALL}) =>
        LET want == Selected(req.chartType)
        IN IF charts.err = ""
           THEN /\ charts.tried = want
                /\ Len(charts.out) = Len(want)
                /\ \A i \in 1..Len(want) :
                      charts.out[i].chartType = want[i] /\ charts.out[i].err = ""
           ELSE /\ charts.out = <<>>
                /\ charts.tried # <<>>
                /\ charts.tried = SubSeq(want, 1, Len(charts.tried))
                /\ chart.chartType = charts.tried[Len(charts.tried)]
                /\ chart.err = charts.err

\* "all" for March 2024 asked on 2024-02-15: the four range charts are built
\* with their series, the calendar fails and no chart is returned
C20_Witness ==
    /\ Admitted
    /\ req.chartType = ChartType_ALL
    /\ series # <<>>
    /\ charts.err = "Invalid month"
    /\ charts.tried = ChartKinds
    /\ charts.queries = 4
    /\ charts.out = <<>>

---------------------------------------------------------------------------
(* Entry point claims                                                      *)

\* the endpoint of the organization cannot be resolved: nothing is cached
\* and the resolution returns an error
Unresolvable == getThanosUrl(cache, "o1", world.env).err # ""

\* the request got as far as the endpoint resolution: GetStacks fetches the
\* clusters before it, GetCharts looks the organization up before it
StacksResolved == stacks.done /\ world.fail # "fetch"

ChartsResolved == charts.done /\ world.fail # "organization"

---------------------------------------------------------------------------
(* Cluster name claims                                                     *)

\* the cache as the name lookups of the latest chart request found it: the
\* cache after the endpoint resolution of that request
NamesBefore == call.res.cache

\* the range query of the request was answered
RangeAnswered ==
    /\ chart.done /\ chart.chartType \in RangeTypes
    /\ call.res.err = "" /\ world.fail = "none"

\* C15: a failed registry lookup names the series with the raw cluster id,
\* does not fail the chart request and writes no cache entry for the id; a
\* successful lookup names the series with the registry name and caches it;
\* an id whose name is cached is resolved from the cache without a registry
\* call.
C15_NameDegrades ==
    RangeAnswered =>
        /\ chart.err = ""
        /\ Len(chart.series) = Len(series)
        /\ \A k \in 1..Len(series) :
              LET id  == series[k].cluster
                  key == NameKey(id)
              IN IF key \in DOMAIN NamesBefore
                 THEN chart.series[k].name = NamesBefore[key] /\ cache[key] = NamesBefore[key]
                 ELSE IF world.registryDown
                 THEN chart.series[k].name = id /\ key \notin DOMAIN cache
                 ELSE chart.series[k].name = RegistryName(id) /\ cache[key] = RegistryName(id)
        /\ chart.nameGets =
              Cardinality({ k \in 1..Len(series) : NameKey(series[k].cluster) \notin DOMAIN NamesBefore })

\* the registry is down and the chart has two series: both carry the raw
\* id, two lookups were made and no name is cached
C15_Witness ==
    /\ RangeAnswered
    /\ world.registryDown
    /\ Len(series) = 2
    /\ chart.err = ""
    /\ chart.series[1].name = "c1" /\ chart.series[2].name = "c2"
    /\ chart.nameGets = 2
    /\ NameKey("c1") \notin DOMAIN cache /\ NameKey("c2") \notin DOMAIN cache

\* the registry is up and the request is served a second time: the names
\* come from the cache and no lookup is made
C15_CachedName ==
    /\ RangeAnswered
    /\ Len(series) = 2
    /\ NameKey("c1") \in DOMAIN NamesBefore
    /\ chart.series[1].name = RegistryName("c1")
    /\ chart.nameGets = 0

---------------------------------------------------------------------------
(* Service lookup claims                                                   *)

\* the call missed the cache and obtained the client set of the primary
\* cluster, so it went on to the service lookups
ReachedServices ==
    /\ Called
    /\ ThanosKey(call.org) \notin DOMAIN call.prior
    /\ ~call.env.orgErr /\ call.env.primary # "" /\ ~call.env.clientErr

\* how often a service name was asked for in the call
LookupsOf(name) ==
    Cardinality({ i \in 1..Len(call.res.svcGets) : call.res.svcGets[i] = name })

\* C19: a call that misses the cache asks for the primary service name
\* first and for the fallback name if and only if the primary lookup
\* failed; it returns an error when both lookups fail and when the service
\* found is not a LoadBalancer; no name is asked for twice, and a call that
\* does not get as far as the services asks for none.
C19_Fallback ==
    /\ ReachedServices =>
          /\ Len(call.res.svcGets) >= 1
          /\ call.res.svcGets[1] = PrimaryService
          /\ LookupsOf(PrimaryService) = 1
          /\ LookupsOf(FallbackService) =
                (IF PrimaryService \in DOMAIN call.env.services THEN 0 ELSE 1)
          /\ Len(call.res.svcGets) = LookupsOf(PrimaryService) + LookupsOf(FallbackService)
          /\ DOMAIN call.env.services = {} => call.res.err = "Failed to get services."
          /\ (/\ DOMAIN call.env.services # {}
              /\ FoundService(call.env).type # "LoadBalancer")
                => call.res.err = "Service type is not LoadBalancer"
    /\ (Called /\ ~ReachedServices) => call.res.svcGets = <<>>

\* the primary name is absent and the endpoint is composed from the
\* fallback service, after one lookup of each name
C19_Witness ==
    /\ ReachedServices
    /\ DOMAIN call.env.services = {FallbackService}
    /\ call.res.svcGets = <<PrimaryService, FallbackService>>
    /\ call.res.err = ""
    /\ call.res.out = "http://a.elb:9090"

---------------------------------------------------------------------------
(* Calendar window claims                                                  *)

\* the window of the request has the shape the calendar is meant to have:
\* 31 consecutive days from the first of the month, their UTC midnights on
\* the x axis, and one series podRestartCount of the same length
FullWindow ==
    /\ Len(chart.xAxis) = WindowDays + 1
    /\ \A i \in 1..Len(chart.xAxis) :
          chart.xAxis[i] =
              Itoa((DateOfMonth(YearOf(req), MonthOf(req)) + i - 1) * SecondsPerDay)
    /\ Len(chart.series) = 1
    /\ chart.series[1].name = "podRestartCount"
    /\ Len(chart.series[1].data) = Len(chart.xAxis)

\* C18: for every year and month that pass the validation the calendar has
\* exactly 31 buckets, one for each consecutive UTC day from the first of
\* the month through start + 30 days; the x axis holds the UTC-midnight
\* epoch seconds of those days, increasing by 86400, and the single series
\* podRestartCount has the length of the x axis.
C18_Window == CalendarCharted => FullWindow

\* January of year 1 passes the validation and is charted with no bucket
C18_Witness ==
    /\ CalendarCharted
    /\ YearOf(req) = 1 /\ MonthOf(req) = 1
    /\ chart.xAxis = <<>>
    /\ Len(chart.series) = 1
    /\ chart.series[1].name = "podRestartCount"
    /\ chart.series[1].data = <<>>

\* every window that does not start at the zero time is full
LaterWindows ==
    (CalendarCharted /\ DateOfMonth(YearOf(req), MonthOf(req)) # ZeroTime) => FullWindow

\* February 2024: 31 buckets that run into March
LaterWindowCharted ==
    /\ CalendarCharted
    /\ YearOf(req) = 2024 /\ MonthOf(req) = 2
    /\ Len(chart.xAxis) = 31
    /\ chart.xAxis[1] = "1706745600"
    /\ chart.xAxis[31] = "1709337600"

---------------------------------------------------------------------------
(* Percentage scaling claims                                               *)

\* the first sample of the values whose rounded timestamp is x: 0 if none
Matched(values, x) ==
    IF x \in StampSet(values)
    THEN CHOOSE p \in 1..Len(values) :
            Stamps(values)[p] = x /\ \A q \in 1..(p - 1) : Stamps(values)[q] # x
    ELSE 0

\* the parsed value v of a sample in six decimals, and v * 100 in six decimals
Plain(v) == FormatF(ParseFloat32(v).v, 6)

Scaled100(v) == FormatF(FMul64(ParseFloat32(v).v, F32(100)), 6)

\* C17: the cell of a matched sample whose value v parses is v * 100 in a
\* CPU or MEMORY chart and v in every other chart, in the same six-decimal
\* format, and the cells that are empty are the same with and without
\* scaling.
C17_Scaling ==
    Charted =>
        \A k \in 1..Len(series), i \in 1..Len(chart.xAxis) :
            LET vs == series[k].values
                p  == Matched(vs, chart.xAxis[i])
            IN /\ (p # 0 /\ ParseFloat32(vs[p].v).ok) =>
                     chart.series[k].data[i] =
                        (IF chart.chartType \in {ChartType_CPU, ChartType_MEMORY}
                         THEN Scaled100(vs[p].v) ELSE Plain(vs[p].v))
               /\ chart.series[k].data[i] = "" <=> getChartYValue(vs, chart.xAxis[i], FALSE) = ""

\* a CPU chart of one series with a malformed sample at 1.0 s before the
\* sample "0.3" at 2.0 s: the matched sample of entry 2 parses and its
\* cell is empty instead of "30.000001"
C17_Witness ==
    /\ Charted
    /\ chart.chartType = ChartType_CPU
    /\ Len(series) = 1
    /\ series[1].values = << [t |-> 10, v |-> <<"x">>], [t |-> 20, v |-> <<"0", ".", "3">>] >>
    /\ Matched(series[1].values, "2") = 2
    /\ Scaled100(series[1].values[2].v) = "30.000001"
    /\ chart.series[1].data[2] = ""

\* every cell that is not empty is the scaled or the plain value of its
\* matched sample, according to the chart type
ScalingWhereEmitted ==
    Charted =>
        \A k \in 1..Len(series), i \in 1..Len(chart.xAxis) :
            LET vs == series[k].values
                p  == Matched(vs, chart.xAxis[i])
            IN /\ chart.series[k].data[i] # "" =>
                     /\ p # 0
                     /\ chart.series[k].data[i] =
                           (IF chart.chartType \in {ChartType_CPU, ChartType_MEMORY}
                            THEN Scaled100(vs[p].v) ELSE Plain(vs[p].v))
               /\ chart.series[k].data[i] = "" <=> getChartYValue(vs, chart.xAxis[i], FALSE) = ""

\* a CPU cell "30.000001" and, for the same sample, a POD cell "0.300000"
ScaledCell ==
    /\ Charted /\ chart.chartType = ChartType_CPU
    /\ Len(series) >= 1 /\ Len(chart.xAxis) >= 1
    /\ chart.series[1].data[1] = "30.000001"

PlainCell ==
    /\ Charted /\ chart.chartType = ChartType_POD
    /\ Len(series) >= 1 /\ Len(chart.xAxis) >= 1
    /\ chart.series[1].data[1] = "0.300000"

---------------------------------------------------------------------------
(* Concurrent resolution claims                                            *)

Returned(g) == flight.calls[g].pc = "done"

\* the call returned without error after a cache miss
SucceededOnMiss(g) == Returned(g) /\ ~flight.calls[g].hit /\ flight.calls[g].err = ""

\* the endpoint of the call is composed from the service its lookups found
Resolved(c) ==
    /\ c.out # ""
    /\ DOMAIN c.env.services # {}
    /\ Len(FoundService(c.env).lbs) > 0
    /\ Len(FoundService(c.env).ports) > 0
    /\ c.out = ComposeUrl(FoundService(c.env))

LastWrite == flight.writes[Len(flight.writes)]

\* the cache holds what the writes made of it: nothing, or the last write
CacheAsWritten ==
    cache = IF flight.writes = <<>> THEN EmptyCache
            ELSE CacheSet(EmptyCache, ThanosKey("o1"), LastWrite.out)

\* every write was made by a call that resolved the endpoint it wrote
WritersResolved ==
    \A i \in 1..Len(flight.writes) :
        LET c == flight.calls[flight.writes[i].g]
        IN c.err = "" /\ ~c.hit /\ c.out = flight.writes[i].out /\ Resolved(c)

\* C16: in every interleaving of the calls for one organization that start
\* from an empty cache, each call that returns without error returns a
\* correctly resolved endpoint (composed from the service it found, or read
\* from the cache where such a call wrote it); once all calls have returned
\* and one succeeded, the cache holds the endpoint of the successful call
\* that wrote last; and the cache never holds anything but the last write
\* of a successful call, so a failing call removes and overwrites nothing.
C16_LastWriteWins ==
    /\ \A g \in Flights : SucceededOnMiss(g) => Resolved(flight.calls[g])
    /\ \A g \in Flights :
          (Returned(g) /\ flight.calls[g].hit) =>
              /\ flight.calls[g].err = ""
              /\ \E i \in 1..Len(flight.writes) : flight.writes[i].out = flight.calls[g].out
    /\ ((\A g \in Flights : Returned(g)) /\ (\E g \in Flights : SucceededOnMiss(g))) =>
          /\ flight.writes # <<>>
          /\ SucceededOnMiss(LastWrite.g)
    /\ CacheAsWritten
    /\ WritersResolved

\* a call that found the load balancer without ingress has returned no
\* error and no endpoint, and the cache is empty after both calls returned
C16_Witness ==
    /\ \A g \in Flights : Returned(g)
    /\ flight.calls[1].env = EnvBare
    /\ SucceededOnMiss(1)
    /\ flight.calls[1].out = ""
    /\ flight.calls[2].err # ""
    /\ cache = EmptyCache

\* the call returned an endpoint after a cache miss
EndpointOnMiss(g) == SucceededOnMiss(g) /\ flight.calls[g].out # ""

\* the same statement for the calls that return an endpoint
EndpointsLastWriteWins ==
    /\ \A g \in Flights : EndpointOnMiss(g) => Resolved(flight.calls[g])
    /\ \A g \in Flights :
          (Returned(g) /\ flight.calls[g].hit) =>
              /\ flight.calls[g].err = ""
              /\ \E i \in 1..Len(flight.writes) : flight.writes[i].out = flight.calls[g].out
    /\ ((\A g \in Flights : Returned(g)) /\ (\E g \in Flights : EndpointOnMiss(g))) =>
          /\ flight.writes # <<>>
          /\ EndpointOnMiss(LastWrite.g)
    /\ CacheAsWritten
    /\ WritersResolved

\* both calls missed and resolved different endpoints; the second wrote
\* first, the first wrote last and its endpoint is in the cache
RacedWrites ==
    /\ \A g \in Flights : EndpointOnMiss(g)
    /\ flight.calls[1].out = "http://a.elb:9090"
    /\ flight.calls[2].out = "https://b.elb:443"
    /\ flight.writes[1].g = 2
    /\ LastWrite.g = 1
    /\ cache[ThanosKey("o1")] = "http://a.elb:9090"

\* a call failed after another wrote its endpoint: the entry is still there
FailedAfterWrite ==
    /\ \A g \in Flights : Returned(g)
    /\ flight.calls[1].err # ""
    /\ EndpointOnMiss(2)
    /\ cache[ThanosKey("o1")] = flight.calls[2].out

---------------------------------------------------------------------------
(* Byte total claims                                                       *)

\* the bytes of 1 GiB
GiB == 1024 * 1024 * 1024

\* whole gigabytes of one sample: 0 for text that is no whole number and
\* for a negative number
WholeGiB(cs) == IF WholeNumber(cs) THEN WholeValue(cs) \div GiB ELSE 0

\* what is left of a sample below its whole gigabytes
RestBytes(cs) == IF WholeNumber(cs) THEN WholeValue(cs) % GiB ELSE 0

RECURSIVE SumGiB(_)
SumGiB(result) ==
    IF result = <<>> THEN 0 ELSE WholeGiB(Head(result).value) + SumGiB(Tail(result))

\* the memory query and the storage query were answered
MemoryCounted == resources.done /\ resources.err = "thanos get" /\ resources.queries = 3

StorageCounted == resources.done /\ resources.err = ""

\* C21: the memory total and the storage total GetResources reports are
\* each the sum, over the samples that are whole numbers and not negative,
\* of floor(sample / 1024^3): every sample is converted to whole gigabytes
\* before it is added, and a sample below 1 GiB adds nothing.
C21_ByteTotals ==
    /\ (MemoryCounted \/ StorageCounted) =>
          resources.memory = GigaBytes(SumGiB(resources.memoryVector))
    /\ StorageCounted =>
          resources.storage = GigaBytes(SumGiB(resources.storageVector))

\* two memory samples of 1 GiB less one byte are reported as "0 GB" though
\* together they hold more than 1 GiB; negative and unparsable storage
\* samples beside a sample of 1 GiB give "1 GB"
C21_Witness ==
    /\ StorageCounted
    /\ Len(resources.memoryVector) = 2
    /\ RestBytes(resources.memoryVector[1].value) + RestBytes(resources.memoryVector[2].value) > GiB
    /\ resources.memory = "0 GB"
    /\ Len(resources.storageVector) = 3
    /\ resources.storageVector[1].value = <<"-", "5">>
    /\ resources.storageVector[2].value = <<"x">>
    /\ resources.storage = "1 GB"

\* two storage samples of 1.5 GiB are reported as "2 GB", not as 3
RoundedBeforeSum ==
    /\ StorageCounted
    /\ Len(resources.storageVector) = 2
    /\ WholeGiB(resources.storageVector[1].value) = 1
    /\ RestBytes(resources.storageVector[1].value) + RestBytes(resources.storageVector[2].value) = GiB
    /\ resources.storage = "2 GB"

---------------------------------------------------------------------------
(* Endpoint presence claims                                                *)

\* the call found a service of type LoadBalancer
FoundLoadBalancer ==
    /\ ReachedServices
    /\ DOMAIN call.env.services # {}
    /\ FoundService(call.env).type = "LoadBalancer"

\* the service found has an ingress entry and a port to compose from
Composable(service) == Len(service.lbs) > 0 /\ Len(service.ports) > 0

\* C22: a call of getThanosUrl returns an error, or it returns an endpoint
\* that is not empty: the cached entry on a hit, and on a miss the
\* endpoint composed from the first port and the first ingress hostname of
\* the service found.  A LoadBalancer without ingress entry or without
\* port gives no successful empty result.
C22_NeverEmpty ==
    Called =>
        \/ call.res.err # ""
        \/ /\ call.res.out # ""
           /\ IF ThanosKey(call.org) \in DOMAIN call.prior
              THEN call.res.out = call.prior[ThanosKey(call.org)]
              ELSE /\ FoundLoadBalancer
                   /\ Composable(FoundService(call.env))
                   /\ call.res.out = ComposeUrl(FoundService(call.env))

\* the primary service is a LoadBalancer without ingress entry: the call
\* returns no error and the empty endpoint, and caches nothing
C22_Witness ==
    /\ FoundLoadBalancer
    /\ FoundService(call.env).lbs = <<>>
    /\ call.res.err = ""
    /\ call.res.out = ""
    /\ call.res.cache = call.prior

\* the same for a LoadBalancer with an ingress entry and no port
EmptyWithoutPort ==
    /\ FoundLoadBalancer
    /\ FoundService(call.env).ports = <<>>
    /\ call.res.err = ""
    /\ call.res.out = ""

\* every successful call on a service that has an ingress entry and a port
\* returns the composed endpoint
ComposedWherePossible ==
    (FoundLoadBalancer /\ Composable(FoundService(call.env))) =>
        /\ call.res.err = ""
        /\ call.res.out = ComposeUrl(FoundService(call.env))

\* GetStacks resolved the empty endpoint without error and went on to both
\* of its queries
QueriedWithoutEndpoint ==
    /\ stacks.done /\ stacks.queries = 2
    /\ Called /\ call.res.err = "" /\ call.res.out = ""

---------------------------------------------------------------------------
(* Cache key claims                                                        *)

\* the caches c and d hold the same entries under every key but k
SameBut(c, d, k) ==
    /\ DOMAIN c \ {k} = DOMAIN d \ {k}
    /\ \A x \in DOMAIN c \ {k} : c[x] = d[x]

\* the endpoints the environments of the calls can give
Endpoints == {"http://a.elb:9090", "https://b.elb:443"}

EndpointKeys == { ThanosKey(id) : id \in SharedIds }

NameKeys == { NameKey(id) : id \in SharedIds }

\* C23: a call of getThanosUrl for an organization changes at most the
\* endpoint entry of that organization, and a call of getClusterNameFromId
\* for a cluster changes at most the name entry of that cluster; every other
\* entry is as it was.  Endpoint keys and name keys are different keys even
\* for equal ids: an endpoint entry always holds an endpoint and a name
\* entry the name of its cluster, and a call returns on a hit the entry of
\* its own kind.
C23_KeyIsolation ==
    /\ EndpointKeys \cap NameKeys = {}
    /\ Called => SameBut(call.prior, call.res.cache, ThanosKey(call.org))
    /\ named.asked => SameBut(named.prior, named.res.cache, NameKey(named.cluster))
    /\ \A id \in SharedIds :
          /\ ThanosKey(id) \in DOMAIN cache => cache[ThanosKey(id)] \in Endpoints
          /\ NameKey(id) \in DOMAIN cache => cache[NameKey(id)] = RegistryName(id)
    /\ DOMAIN cache \subseteq EndpointKeys \cup NameKeys
    /\ (Called /\ call.res.err = "" /\ call.res.out # "") => call.res.out \in Endpoints
    /\ (named.asked /\ named.res.err = "") => named.res.name = RegistryName(named.cluster)

\* the endpoint of organization "a" and the name of cluster "a" are both
\* cached; the name call for "a" hit its own entry while the endpoint
\* entries of "a" and "b" were in the cache, and left them as they were
C23_Witness ==
    /\ Called /\ call.org = "a" /\ call.res.out = "http://a.elb:9090"
    /\ named.asked /\ named.cluster = "a"
    /\ ThanosKey("a") \in DOMAIN named.prior
    /\ ThanosKey("b") \in DOMAIN named.prior
    /\ NameKey("a") \in DOMAIN named.prior
    /\ named.res.gets = 0
    /\ named.res.name = RegistryName("a")
    /\ cache[ThanosKey("a")] = "http://a.elb:9090"
    /\ cache[ThanosKey("b")] = "https://b.elb:443"

============================================================================
